---- MODULE Spec2Model ----
(***************************************************************************)
(* The family import of backend/src/models/families.ts:                    *)
(* importFamilyFromCadAndSislameCSV cross-references the benefit registry  *)
(* (Bolsa Familia) with the school enrollment registry (Sislame), writes   *)
(* one audit row per rejected benefit row, builds the list of granted      *)
(* families and saves it, reporting its progress per city.                 *)
(*                                                                         *)
(* Conventions.  Arrays are sequences, so the index of the first element   *)
(* is 1 and "not found" (-1 in the source) is 0.  A date is kept as what   *)
(* the code computes from it: the number of whole years between the date   *)
(* and the start of the current month.  A raw name may carry a diacritic,  *)
(* written here with a mark after the letter ("JOSE'" is JOSE with an      *)
(* acute accent, "JOA~O" is JOAO with a tilde).                            *)
(***************************************************************************)
EXTENDS Integers, Sequences, FiniteSets, TLC

\* Longest benefit file and longest enrollment file that are read.
MaxFam == 3
MaxSis == 2

\* "the dependent can't have more than 17 years"
MinorityAge == 18

\* The city of the import run.
City == 1

VARIABLES
    pc,                   \* position of the import run
    familyFile,           \* rows parsed from familyFilePath
    sislameFile,          \* rows parsed from sislameFilePath
    familyKeys,           \* Object.keys of the first benefit row
    sislameKeys,          \* Object.keys of the first enrollment row
    originalFamilyData,
    originalSislameData,
    familyData,
    sislameData,
    duplicatedDependent,
    grantedFamilies,
    familyIndex,          \* index of the main loop
    duplicatedItens,      \* group handled by the duplicate pass
    itemIndex,            \* index of the loop over duplicatedItens
    sislameIndex,
    foundSislameKey,
    saveIndex,            \* index of the saving loop
    csvFile,              \* records of reason_<cityId>.csv
    inflight,             \* writeRecords calls issued and not yet settled
    csvWriterList,
    importReportList,
    reportLog,            \* history: the updateImportReport calls, in order
    dbFamilies,           \* rows of the families table
    certifyCalls,         \* history: the grants handed to certifyFamilyAndDependents
    thrown,               \* the error the run rejected with, or NoError
    log,                  \* history: the decisions of the run, in order
    dbInstitutions,       \* rows of the institutions table
    institutionCalls,     \* history: the calls of models/institutions, in order
    authLog,              \* history: the requests requirePublicAuth handled
    csvPc,                \* position of importFamilyFromCSVFile
    csvInput,             \* lines of the file importFamilyFromCSVFile reads
    lineNumber,           \* lines handed to the line handler so far
    promises,             \* the certifyFamilyByCode calls not yet flushed
    reportResult,
    conversion            \* state of the promise importFamilyFromCSVFile returns

vars == << pc, familyFile, sislameFile, familyKeys, sislameKeys,
           originalFamilyData, originalSislameData, familyData, sislameData,
           duplicatedDependent, grantedFamilies, familyIndex, duplicatedItens,
           itemIndex, sislameIndex, foundSislameKey, saveIndex, csvFile,
           inflight, csvWriterList, importReportList, reportLog, dbFamilies,
           certifyCalls, thrown, log,
           dbInstitutions, institutionCalls, authLog,
           csvPc, csvInput, lineNumber, promises, reportResult, conversion >>

\* The state of the CAD/Sislame import, of its reports and of the families table.
cadVars == << pc, familyFile, sislameFile, familyKeys, sislameKeys,
              originalFamilyData, originalSislameData, familyData, sislameData,
              duplicatedDependent, grantedFamilies, familyIndex, duplicatedItens,
              itemIndex, sislameIndex, foundSislameKey, saveIndex, csvFile,
              inflight, csvWriterList, importReportList, reportLog, dbFamilies,
              certifyCalls, thrown, log >>

institutionVars == << dbInstitutions, institutionCalls >>
csvImportVars   == << csvPc, csvInput, lineNumber, promises, reportResult, conversion >>

\* The state the CAD/Sislame import never touches.
outsideVars == << institutionVars, authLog, csvImportVars >>

\* reportResult of line 178.
NewReportResult == [created |-> 0, updated |-> 0, deleted |-> 0, wrong |-> 0,
                    report |-> << >>, finished |-> FALSE]

\* No institution stored, no request handled, no CSV import started.
InitOutside ==
    /\ dbInstitutions = {}
    /\ institutionCalls = << >>
    /\ authLog = << >>
    /\ csvPc = "idle"
    /\ csvInput = << >>
    /\ lineNumber = 0
    /\ promises = << >>
    /\ reportResult = NewReportResult
    /\ conversion = "none"

----------------------------------------------------------------------------
(* Generic array helpers (lodash / Array.prototype).                       *)

\* Array.prototype.findIndex: the first index whose element satisfies P.
FindIndexLast(s, P(_)) ==
    IF \E i \in 1..Len(s) : P(s[i])
    THEN CHOOSE i \in 1..Len(s) : P(s[i]) /\ \A j \in (i+1)..Len(s) : ~P(s[j])
    ELSE 0

FindIndex(s, P(_)) ==
    IF \E i \in 1..Len(s) : P(s[i])
    THEN CHOOSE i \in 1..Len(s) : P(s[i]) /\ \A j \in 1..(i-1) : ~P(s[j])
    ELSE 0

\* Array.prototype.filter.
Filter(s, P(_)) == SelectSeq(s, P)

\* lodash uniqBy: the first element of each key, in the order of s.
UniqBy(s, Key(_)) ==
    LET F[i \in 0..Len(s)] ==
          IF i = 0 THEN << >>
          ELSE IF \E j \in 1..(i-1) : Key(s[j]) = Key(s[i])
               THEN F[i-1]
               ELSE Append(F[i-1], s[i])
    IN  F[Len(s)]

\* Array.prototype.map.
Map(s, Op(_)) == [i \in 1..Len(s) |-> Op(s[i])]

----------------------------------------------------------------------------
(* Names.                                                                  *)

\* lodash deburr on one string: the diacritics are removed, nothing else.
Deburr(s) ==
    CASE s = "JOSE'"  -> "JOSE"
      [] s = "JOA~O"  -> "JOAO"
      [] OTHER        -> s

\* The normal form compareNames compares: no diacritics, upper case.
NormalizeName(s) ==
    CASE Deburr(s) = "Maria" -> "MARIA"
      [] OTHER               -> Deburr(s)

\* utils/string compareNames: equality of the normal forms.
CompareNames(a, b) == NormalizeName(a) = NormalizeName(b)

----------------------------------------------------------------------------
(* The inputs: the rows a benefit file and an enrollment file may hold.    *)

TitularName(t)   == IF t = 1 THEN "JOSE'" ELSE "MARIA"
DependentName(d) == IF d = 1 THEN "JOA~O" ELSE IF d = 2 THEN "LIA" ELSE "BIA"

FamilyRow(t, d, age) ==
    [NISTITULAR |-> t, TITULAR |-> TitularName(t),
     NISDEPENDEN |-> d, DEPENDENTE |-> DependentName(d), DTNASCDEP |-> age]

FamilyRows ==
    { FamilyRow(1, 1, 17), FamilyRow(2, 1, 17), FamilyRow(2, 2, 17),
      FamilyRow(2, 1, 18) }

SislameRow(aluno, matricula, mae, pai, responsavel, age) ==
    [Aluno |-> aluno, Matricula |-> matricula, Mae |-> mae, Pai |-> pai,
     NomeResponsavel |-> responsavel, DataNascimento |-> age]

SislameRows ==
    { SislameRow("JOA~O", "1", "Maria", "JOSE", "", 17),
      SislameRow("JOAO", "2", "MARIA", "JOSE", "", 18),
      SislameRow("JOAO", "1", "ANA", "", "JOSE", 17),
      SislameRow("LIA", "1", "MARIA", "", "", 17) }

SeqsUpTo(S, n) == UNION { [1..k -> S] : k \in 0..n }

FamilyFiles  == SeqsUpTo(FamilyRows, MaxFam)
SislameFiles == SeqsUpTo(SislameRows, MaxSis)

\* The columns the checks require, as the files spell them.
SislameRequiredKeys ==
    {"Aluno", "Ma~e", "Pai", "Nome Responsa'vel", "Data Nascimento"}
FamilyRequiredKeys ==
    {"DEPENDENTE", "NISDEPENDEN", "NISTITULAR", "TITULAR", "DTNASCTIT", "DTNASCDEP"}

\* The headers a file may come with: complete, or one required column short.
SislameHeaders == {SislameRequiredKeys, SislameRequiredKeys \ {"Aluno"}}
FamilyHeaders  == {FamilyRequiredKeys, FamilyRequiredKeys \ {"NISTITULAR"}}

----------------------------------------------------------------------------
(* Errors.                                                                 *)

NoError    == [message |-> "none"]
ReadError  == [message |-> "file could not be read"]
AuditError == [message |-> "reason file could not be written"]
DbError    == [message |-> "family could not be saved"]
EmptySislameError == [status |-> 412, message |-> "Nenhum dado na tabela do Sislame"]
EmptyFamilyError  == [status |-> 412, message |-> "Nenhum dado na tabela do Bolsa Familia"]

\* The messages of the two checks: the text, the columns not found and the
\* columns the row has, in one string.
SislameColumnsMessage(notFoundKeys, availableKeys) ==
    "Na tabela do Sislame, as seguintes colunas nao foram encontradas: "
        \o ToString(notFoundKeys) \o " --- Disponiveis: " \o ToString(availableKeys)
FamilyColumnsMessage(notFoundKeys, availableKeys) ==
    "Na tabela do Bolsa Familia, as seguintes colunas nao foram encontradas: "
        \o ToString(notFoundKeys) \o " --- Disponiveis: " \o ToString(availableKeys)

----------------------------------------------------------------------------
(* The import report of a city.                                            *)

DefaultReportBusy(cityId) == [status |-> "idle", cityId |-> cityId, inProgress |-> TRUE]

DefaultReport(cityId) == [status |-> "idle", cityId |-> cityId, inProgress |-> FALSE]

\* getImportReport, on a given list.
GetImportReport(list, cityId) ==
    LET index == FindIndex(list, LAMBDA item : item.cityId = cityId)
    IN  IF index = 0 THEN DefaultReport(cityId) ELSE list[index]

UpdateImportReportMerging(list, importReport, cityId) ==
    LET index   == FindIndex(list, LAMBDA item : item.cityId = cityId)
        spliced == IF index > 0
                   THEN SubSeq(list, 1, index - 1) \o SubSeq(list, index + 1, Len(list))
                   ELSE list
        inProgress == IF "inProgress" \in DOMAIN importReport
                      THEN importReport.inProgress ELSE TRUE
        stored  == [cityId |-> cityId, inProgress |-> inProgress] @@ importReport
    IN  Append(spliced, IF index > 0 THEN stored @@ list[index] ELSE stored)

UpdateImportReportUnguarded(list, importReport, cityId) ==
    LET index   == FindIndex(list, LAMBDA item : item.cityId = cityId)
        spliced == IF index > 0
                   THEN SubSeq(list, 1, index - 1) \o SubSeq(list, index + 1, Len(list))
                   ELSE SubSeq(list, 1, Len(list) - 1)
        inProgress == IF "inProgress" \in DOMAIN importReport
                      THEN importReport.inProgress ELSE TRUE
    IN  Append(spliced,
               [cityId |-> cityId, inProgress |-> inProgress] @@ importReport)

\* updateImportReport, on a given list: the city's report is removed and the
\* new one pushed, with inProgress defaulting to true.
UpdateImportReport(list, importReport, cityId) ==
    LET index   == FindIndex(list, LAMBDA item : item.cityId = cityId)
        spliced == IF index > 0
                   THEN SubSeq(list, 1, index - 1) \o SubSeq(list, index + 1, Len(list))
                   ELSE list
        inProgress == IF "inProgress" \in DOMAIN importReport
                      THEN importReport.inProgress ELSE TRUE
    IN  Append(spliced,
               [cityId |-> cityId, inProgress |-> inProgress] @@ importReport)

FailedReportInProgress(message) == [status |-> "failed", message |-> message]

\* The report of a failure: lines 354, 380 and 619.
FailedReport(message) == [status |-> "failed", message |-> message, inProgress |-> FALSE]

\* History: one call updateImportReport(importReport, cityId).
Call(cityId, importReport) == [cityId |-> cityId, importReport |-> importReport]

----------------------------------------------------------------------------
(* The steps of importFamilyFromCadAndSislameCSV that are pure.            *)

\* `${item.NISTITULAR}-${item.NISDEPENDEN}` and `${item['Aluno']}-${item['Matricula']}`:
\* the two fields joined by a hyphen into one string.
FamilyKey(item)  == ToString(item.NISTITULAR) \o "-" \o ToString(item.NISDEPENDEN)
SislameKey(item) == item.Aluno \o "-" \o item.Matricula

\* uniqBy on each list: the first row of each key stays.
UniqueFamily(data)  == UniqBy(data, FamilyKey)
UniqueSislame(data) == UniqBy(data, SislameKey)

ValidAgeInclusive(years) == years <= MinorityAge

\* moment().startOf('month').diff(date, 'years') < 18
ValidAge(years) == years < MinorityAge

Reason(text, cited) == [text |-> text, cited |-> cited]

OverageReason        == Reason("Depedente maior de idade", {})
SislameOverageReason == Reason("Dependente nao e menor de idade no Sislame", {})
NotInSislameReason   == Reason("Dependente nao esta no Sislame", {})

WrongGuardianReasonCiting(sislameItem) ==
    Reason("Encontrado aluno com mesmo nome no Sislame, mas responsavel diferente. Atualizar Sislame ou e um homonimo",
           {sislameItem.Mae})

\* The reason written when only the name of the dependent is found.
WrongGuardianReason(sislameItem) ==
    Reason("Encontrado aluno com mesmo nome no Sislame, mas responsavel diferente. Atualizar Sislame ou e um homonimo",
           {})

LinkedReason(name) == Reason("Dependente esta vinculado a outra pessoa", {name})

\* { ...familyItem, reason }
Rejection(familyItem, reason) == [row |-> familyItem, reason |-> reason]

\* The reduce of the age filter: << valid, invalid >>.
PartitionByAge(data) ==
    LET F[i \in 0..Len(data)] ==
          IF i = 0 THEN << << >>, << >> >>
          ELSE IF ~ValidAge(data[i].DTNASCDEP)
               THEN << F[i-1][1], Append(F[i-1][2], Rejection(data[i], OverageReason)) >>
               ELSE << Append(F[i-1][1], data[i]), F[i-1][2] >>
    IN  F[Len(data)]

\* JSON.parse(deburr(JSON.stringify(data))) on each list.
DeburrFamily(data) ==
    Map(data, LAMBDA item : [item EXCEPT !.TITULAR = Deburr(@), !.DEPENDENTE = Deburr(@)])
DeburrSislame(data) ==
    Map(data, LAMBDA item : [item EXCEPT !.Aluno = Deburr(@), !.Mae = Deburr(@),
                                         !.Pai = Deburr(@), !.NomeResponsavel = Deburr(@)])

\* The rows whose NISDEPENDEN is also the NISDEPENDEN of a row at another index.
DuplicatedDependent(data) ==
    LET Idx == { i \in 1..Len(data) :
                   \E j \in 1..Len(data) : j # i /\ data[j].NISDEPENDEN = data[i].NISDEPENDEN }
        F[i \in 0..Len(data)] ==
          IF i = 0 THEN << >>
          ELSE IF i \in Idx THEN Append(F[i-1], data[i]) ELSE F[i-1]
    IN  F[Len(data)]

\* familyData = uniqBy(familyData, (item) => item.NISDEPENDEN)
UniqueDependents(data) == UniqBy(data, LAMBDA item : item.NISDEPENDEN)

SameResponsibleNoFather(sislameItem, familyItem) ==
    \/ CompareNames(sislameItem.Mae, familyItem.TITULAR)
    \/ CompareNames(sislameItem.NomeResponsavel, familyItem.TITULAR)

SameResponsible(sislameItem, familyItem) ==
    \/ CompareNames(sislameItem.Mae, familyItem.TITULAR)
    \/ CompareNames(sislameItem.Pai, familyItem.TITULAR)
    \/ CompareNames(sislameItem.NomeResponsavel, familyItem.TITULAR)

\* The findIndex of the main loop: dependent and responsible both match.
FindSislameIndexLast(data, familyItem) ==
    FindIndexLast(data, LAMBDA sislameItem :
        /\ CompareNames(sislameItem.Aluno, familyItem.DEPENDENTE)
        /\ SameResponsible(sislameItem, familyItem))

FindSislameIndex(data, familyItem) ==
    FindIndex(data, LAMBDA sislameItem :
        /\ CompareNames(sislameItem.Aluno, familyItem.DEPENDENTE)
        /\ SameResponsible(sislameItem, familyItem))

\* The find that looks for a better reason: the dependent's name alone.
FindSislameByName(data, familyItem) ==
    FindIndex(data, LAMBDA sislameItem :
        CompareNames(sislameItem.Aluno, familyItem.DEPENDENTE))

\* parseFamilyItem: the fields of the family that come from the row.
ParseFamilyItem(family, cityId) ==
    [responsibleNis |-> family.NISTITULAR, responsibleName |-> family.TITULAR,
     cityId |-> cityId]

\* models/dependents parseFamilyAndSislameItems: the dependent built from a
\* benefit row and an enrollment row, kept as the two rows it is built from.
ParseFamilyAndSislameItems(family, sislame) == [family |-> family, sislame |-> sislame]

\* The grant of familyItem: pushed, or added to the family already on the list.
AddGranted(granted, familyItem, originalFamilyItem, originalSislameItem, cityId) ==
    LET alreadyOnListIndex ==
            FindIndex(granted, LAMBDA family : family.responsibleNis = familyItem.NISTITULAR)
        dependent == ParseFamilyAndSislameItems(originalFamilyItem, originalSislameItem)
    IN  IF alreadyOnListIndex = 0
        THEN Append(granted,
                    ParseFamilyItem(originalFamilyItem, cityId) @@ [dependents |-> << dependent >>])
        ELSE [granted EXCEPT ![alreadyOnListIndex].dependents = Append(@, dependent)]

\* The role keys of the duplicate pass, in the order they are tried.
SislamePossibleKeys == << "Mae", "NomeResponsavel", "Pai" >>

\* findIndex of the duplicate pass for one role key.
FindDuplicatedIndex(data, itens, key) ==
    FindIndex(data, LAMBDA sislameItem :
        /\ CompareNames(sislameItem.Aluno, itens[1].DEPENDENTE)
        /\ \E k \in 1..Len(itens) : CompareNames(sislameItem[key], itens[k].TITULAR))

\* The for loop over the role keys: << sislameIndex, foundSislameKey >>.
FindDuplicatedKey(data, itens) ==
    LET Found == { k \in 1..Len(SislamePossibleKeys) :
                     FindDuplicatedIndex(data, itens, SislamePossibleKeys[k]) > 0 }
    IN  IF Found = {} THEN << 0, "Mae" >>
        ELSE LET k == CHOOSE k \in Found : \A other \in Found : k <= other
             IN  << FindDuplicatedIndex(data, itens, SislamePossibleKeys[k]),
                    SislamePossibleKeys[k] >>

\* certifyFamilyByNis on the table: found by responsibleNis alone and updated,
\* or created.
CertifyFamilyByNis(table, family) ==
    LET index == FindIndex(table, LAMBDA row : row.responsibleNis = family.responsibleNis)
        fields == [responsibleNis |-> family.responsibleNis,
                   responsibleName |-> family.responsibleName,
                   cityId |-> family.cityId]
    IN  IF index = 0
        THEN Append(table, fields @@ [dependents |-> << >>])
        ELSE [table EXCEPT ![index] = fields @@ [dependents |-> table[index].dependents]]

\* models/dependents certifyDependentsByFamilyList: the dependents of the
\* family become the ones of the list.
CertifyDependentsByFamilyList(table, family) ==
    LET index == FindIndex(table, LAMBDA row : row.responsibleNis = family.responsibleNis)
    IN  [table EXCEPT ![index].dependents = family.dependents]

\* certifyFamilyAndDependents.
CertifyFamilyAndDependents(table, family) ==
    CertifyDependentsByFamilyList(CertifyFamilyByNis(table, family), family)

----------------------------------------------------------------------------
(* History: one entry per decision the run takes on a benefit row.         *)

Decision(familyItem, phase, outcome, reason) ==
    [row |-> familyItem, phase |-> phase, outcome |-> outcome, reason |-> reason]

Accepted(familyItem, phase) ==
    Decision(familyItem, phase, "accepted", Reason("", {}))

Rejected(phase, record) ==
    Decision(record.row, phase, "rejected", record.reason)

----------------------------------------------------------------------------
(* The state after the module is loaded: no report, no writer, no run.     *)

Init ==
    /\ pc = "idle"
    /\ familyFile = << >>
    /\ sislameFile = << >>
    /\ familyKeys = {}
    /\ sislameKeys = {}
    /\ originalFamilyData = << >>
    /\ originalSislameData = << >>
    /\ familyData = << >>
    /\ sislameData = << >>
    /\ duplicatedDependent = << >>
    /\ grantedFamilies = << >>
    /\ familyIndex = 0
    /\ duplicatedItens = << >>
    /\ itemIndex = 0
    /\ sislameIndex = 0
    /\ foundSislameKey = "Mae"
    /\ saveIndex = 0
    /\ csvFile = << >>
    /\ inflight = << >>
    /\ csvWriterList = {}
    /\ importReportList = << >>
    /\ reportLog = << >>
    /\ dbFamilies = << >>
    /\ certifyCalls = << >>
    /\ thrown = NoError
    /\ log = << >>
    /\ InitOutside

inputVars   == << familyFile, sislameFile, familyKeys, sislameKeys >>
dataVars    == << originalFamilyData, originalSislameData, familyData, sislameData >>
groupVars   == << duplicatedItens, itemIndex, sislameIndex, foundSislameKey >>
storageVars == << dbFamilies, certifyCalls >>

----------------------------------------------------------------------------
(* importFamilyFromCadAndSislameCSV, from one await to the next.           *)

\* Lines 397-401: the writer of the city is fetched (and its file emptied
\* when the writer is created), the report says 'reading files', and the
\* files are being read.
Start ==
    /\ pc = "idle"
    /\ csvWriterList' = csvWriterList \cup {City}
    /\ csvFile' = IF City \in csvWriterList THEN csvFile ELSE << >>
    /\ importReportList' =
           UpdateImportReport(importReportList, [status |-> "reading files"], City)
    /\ reportLog' = Append(reportLog, Call(City, [status |-> "reading files"]))
    /\ pc' = "reading"
    /\ UNCHANGED << inputVars, dataVars, groupVars, storageVars, duplicatedDependent,
                    grantedFamilies, familyIndex, saveIndex, inflight, thrown, log >>
    /\ UNCHANGED outsideVars

\* csv().fromFile rejects: the run rejects with that error.
ReadFail ==
    /\ pc = "reading"
    /\ thrown' = ReadError
    /\ pc' = "thrown"
    /\ UNCHANGED << inputVars, dataVars, groupVars, storageVars, duplicatedDependent,
                    grantedFamilies, familyIndex, saveIndex, csvFile, inflight,
                    csvWriterList, importReportList, reportLog, log >>
    /\ UNCHANGED outsideVars

\* checkRequiredSislameData then checkRequiredFamilyData on the first rows:
\* << error, report list, updateImportReport calls made >>, the error being
\* NoError when both pass.
CheckRequiredData(list, family, sislame, fkeys, skeys, cityId) ==
    LET sislameNotFound == SislameRequiredKeys \ skeys
        familyNotFound  == FamilyRequiredKeys \ fkeys
        sislameMessage  == SislameColumnsMessage(sislameNotFound, skeys)
        familyMessage   == FamilyColumnsMessage(familyNotFound, fkeys)
    IN  IF sislame = << >> THEN << EmptySislameError, list, << >> >>
        ELSE IF sislameNotFound # {}
        THEN << [status |-> 412, message |-> sislameMessage],
                UpdateImportReport(list, FailedReport(sislameMessage), cityId),
                << Call(cityId, FailedReport(sislameMessage)) >> >>
        ELSE IF family = << >> THEN << EmptyFamilyError, list, << >> >>
        ELSE IF familyNotFound # {}
        THEN << [status |-> 412, message |-> familyMessage],
                UpdateImportReport(list, FailedReport(familyMessage), cityId),
                << Call(cityId, FailedReport(familyMessage)) >> >>
        ELSE << NoError, list, << >> >>

\* The headers go with the rows: a file without rows has no first row.
Readable(family, sislame, fkeys, skeys) ==
    /\ fkeys \in (IF family = << >> THEN {{}} ELSE FamilyHeaders)
    /\ skeys \in (IF sislame = << >> THEN {{}} ELSE SislameHeaders)

\* Lines 401-414, a check throws: the files are read, the report says
\* 'filtering data', and a required-data check throws.
ValidateFailFrom(familyFiles, sislameFiles) ==
    /\ pc = "reading"
    /\ \E family \in familyFiles, sislame \in sislameFiles,
          fkeys \in FamilyHeaders \cup {{}}, skeys \in SislameHeaders \cup {{}} :
         LET filtering == UpdateImportReport(importReportList,
                                             [status |-> "filtering data"], City)
             checked   == CheckRequiredData(filtering, family, sislame, fkeys, skeys, City)
         IN  /\ Readable(family, sislame, fkeys, skeys)
             /\ checked[1] # NoError
             /\ familyFile' = family
             /\ sislameFile' = sislame
             /\ familyKeys' = fkeys
             /\ sislameKeys' = skeys
             /\ importReportList' = checked[2]
             /\ reportLog' = Append(reportLog, Call(City, [status |-> "filtering data"]))
                               \o checked[3]
             /\ thrown' = checked[1]
    /\ pc' = "thrown"
    /\ UNCHANGED << dataVars, groupVars, storageVars, duplicatedDependent,
                    grantedFamilies, familyIndex, saveIndex, csvFile, inflight,
                    csvWriterList, log >>
    /\ UNCHANGED outsideVars

\* The run reads files of at most MaxFam and MaxSis rows.
ValidateFail == ValidateFailFrom(FamilyFiles, SislameFiles)

\* Lines 401-437, the checks pass: both lists are deduplicated, the benefit
\* rows are split by the age of the dependent, and the rows removed are
\* handed to the writer in one call.
FilterDataFrom(familyFiles, sislameFiles) ==
    /\ pc = "reading"
    /\ \E family \in familyFiles, sislame \in sislameFiles,
          fkeys \in FamilyHeaders, skeys \in SislameHeaders :
         LET filtering == UpdateImportReport(importReportList,
                                             [status |-> "filtering data"], City)
             checked   == CheckRequiredData(filtering, family, sislame, fkeys, skeys, City)
             unique    == UniqueFamily(family)
             parts     == PartitionByAge(unique)
         IN  /\ Readable(family, sislame, fkeys, skeys)
             /\ checked[1] = NoError
             /\ familyFile' = family
             /\ sislameFile' = sislame
             /\ familyKeys' = fkeys
             /\ sislameKeys' = skeys
             /\ importReportList' = checked[2]
             /\ reportLog' = Append(reportLog, Call(City, [status |-> "filtering data"]))
                               \o checked[3]
             /\ originalFamilyData' = parts[1]
             /\ originalSislameData' = UniqueSislame(sislame)
             /\ inflight' = Append(inflight, parts[2])
             /\ log' = log \o Map(Filter(unique, LAMBDA item : ~ValidAge(item.DTNASCDEP)),
                                  LAMBDA item : Decision(item, "filter", "rejected", OverageReason))
    /\ pc' = "awaitOverage"
    /\ UNCHANGED << familyData, sislameData, groupVars, storageVars, duplicatedDependent,
                    grantedFamilies, familyIndex, saveIndex, csvFile, csvWriterList,
                    thrown >>
    /\ UNCHANGED outsideVars

\* The run reads files of at most MaxFam and MaxSis rows.
FilterData == FilterDataFrom(FamilyFiles, SislameFiles)

\* The position after the main loop has handled the index before i.
AfterCompare(i, data, duplicated) ==
    IF i <= Len(data) THEN "compare"
    ELSE IF Len(duplicated) > 0 THEN "duplicated" ELSE "saving"

\* Lines 437-459: the write of the removed rows settles; both lists lose
\* their special characters, the rows of a dependent that is on several rows
\* are collected, and familyData keeps the first row of each dependent.
OverageWriteDone ==
    /\ pc = "awaitOverage"
    /\ csvFile' = csvFile \o Head(inflight)
    /\ inflight' = Tail(inflight)
    /\ LET deburred == DeburrFamily(originalFamilyData)
       IN  /\ duplicatedDependent' = DuplicatedDependent(deburred)
           /\ familyData' = UniqueDependents(deburred)
           /\ pc' = AfterCompare(1, UniqueDependents(deburred), DuplicatedDependent(deburred))
    /\ sislameData' = DeburrSislame(originalSislameData)
    /\ grantedFamilies' = << >>
    /\ familyIndex' = 1
    /\ saveIndex' = 1
    /\ UNCHANGED << inputVars, originalFamilyData, originalSislameData, groupVars,
                    storageVars, csvWriterList, importReportList, reportLog, thrown, log >>
    /\ UNCHANGED outsideVars

\* A writeRecords call rejects. Every call is outside the try of the saving
\* phase, so the run rejects with the error of the writer.
WriteFail ==
    /\ pc \in {"awaitOverage", "awaitCompare", "awaitGroup", "awaitItem"}
    /\ inflight' = Tail(inflight)
    /\ thrown' = AuditError
    /\ pc' = "thrown"
    /\ UNCHANGED << inputVars, dataVars, groupVars, storageVars, duplicatedDependent,
                    grantedFamilies, familyIndex, saveIndex, csvFile, csvWriterList,
                    importReportList, reportLog, log >>
    /\ UNCHANGED outsideVars

\* The record the main loop rejects familyItem with, when it has no entry
\* with the same dependent and responsible.
NotFoundRecord(data, familyItem) ==
    LET byName == FindSislameByName(data, familyItem)
    IN  IF byName > 0
        THEN Rejection(familyItem, WrongGuardianReason(data[byName]))
        ELSE Rejection(familyItem, NotInSislameReason)

ComparingReportFromZero(index, length) ==
    [status |-> "comparing data", percentage |-> [num |-> index - 1, den |-> length]]

ComparingReport(index, length) ==
    [status |-> "comparing data", percentage |-> [num |-> index, den |-> length]]

\* Lines 462-517, one row of familyData: granted, or handed to the writer
\* with the reason.
CompareStep ==
    /\ pc = "compare"
    /\ familyIndex <= Len(familyData)
    /\ importReportList' =
           UpdateImportReport(importReportList,
                              ComparingReport(familyIndex, Len(familyData)), City)
    /\ reportLog' = Append(reportLog, Call(City, ComparingReport(familyIndex, Len(familyData))))
    /\ LET familyItem == familyData[familyIndex]
           found      == FindSislameIndex(sislameData, familyItem)
       IN  IF found > 0 /\ ValidAge(sislameData[found].DataNascimento)
           THEN /\ grantedFamilies' =
                       AddGranted(grantedFamilies, familyItem,
                                  originalFamilyData[familyIndex],
                                  originalSislameData[found], City)
                /\ log' = Append(log, Accepted(familyItem, "compare"))
                /\ familyIndex' = familyIndex + 1
                /\ pc' = AfterCompare(familyIndex + 1, familyData, duplicatedDependent)
                /\ UNCHANGED inflight
           ELSE LET record == IF found > 0
                              THEN Rejection(familyItem, SislameOverageReason)
                              ELSE NotFoundRecord(sislameData, familyItem)
                IN  /\ inflight' = Append(inflight, << record >>)
                    /\ log' = Append(log, Rejected("compare", record))
                    /\ pc' = "awaitCompare"
                    /\ UNCHANGED << grantedFamilies, familyIndex >>
    /\ UNCHANGED << inputVars, dataVars, groupVars, storageVars, duplicatedDependent,
                    saveIndex, csvFile, csvWriterList, thrown >>
    /\ UNCHANGED outsideVars

\* The write of the main loop settles: continue with the next row.
CompareWriteDone ==
    /\ pc = "awaitCompare"
    /\ csvFile' = csvFile \o Head(inflight)
    /\ inflight' = Tail(inflight)
    /\ familyIndex' = familyIndex + 1
    /\ pc' = AfterCompare(familyIndex + 1, familyData, duplicatedDependent)
    /\ UNCHANGED << inputVars, dataVars, groupVars, storageVars, duplicatedDependent,
                    grantedFamilies, saveIndex, csvWriterList, importReportList, reportLog,
                    thrown, log >>
    /\ UNCHANGED outsideVars

GroupRecordsReversed(itens) ==
    [i \in 1..Len(itens) |->
        Rejection(itens[Len(itens) + 1 - i], NotInSislameReason)]

\* Line 544: the records of a group no role key finds, in the order of the group.
GroupRecords(itens) ==
    Map(itens, LAMBDA familyItem : Rejection(familyItem, NotInSislameReason))

RemoveFirstOnly(duplicated) == Tail(duplicated)

\* Line 587: the group of the first pending row leaves the pending list.
RemoveGroup(duplicated) ==
    Filter(duplicated, LAMBDA item : item.NISDEPENDEN # duplicated[1].NISDEPENDEN)

AfterGroup(duplicated) ==
    IF Len(RemoveGroup(duplicated)) > 0 THEN "duplicated" ELSE "saving"

\* Lines 520-546: the group of the first pending row and the role key that
\* finds it in Sislame; without one the whole group is written in one call.
GroupStep ==
    /\ pc = "duplicated"
    /\ Len(duplicatedDependent) > 0
    /\ LET itens == Filter(duplicatedDependent,
                           LAMBDA item : item.NISDEPENDEN = duplicatedDependent[1].NISDEPENDEN)
           found == FindDuplicatedKey(sislameData, itens)
       IN  /\ duplicatedItens' = itens
           /\ sislameIndex' = found[1]
           /\ foundSislameKey' = found[2]
           /\ IF found[1] = 0
              THEN     /\ inflight' = Append(inflight, GroupRecords(itens))
                       /\ log' = log \o Map(itens, LAMBDA familyItem :
                                    Decision(familyItem, "duplicated", "rejected",
                                             NotInSislameReason))
                       /\ itemIndex' = Len(itens) + 1
                       /\ pc' = "awaitGroup"
              ELSE /\ itemIndex' = 1
                   /\ pc' = "item"
                   /\ UNCHANGED << inflight, log >>
    /\ UNCHANGED << inputVars, dataVars, storageVars, duplicatedDependent,
                    grantedFamilies, familyIndex, saveIndex, csvFile, csvWriterList,
                    importReportList, reportLog, thrown >>
    /\ UNCHANGED outsideVars

\* The write of a whole group settles: the group is removed.
GroupWriteDone ==
    /\ pc = "awaitGroup"
    /\ csvFile' = csvFile \o Head(inflight)
    /\ inflight' = Tail(inflight)
    /\ duplicatedDependent' = RemoveGroup(duplicatedDependent)
    /\ pc' = AfterGroup(duplicatedDependent)
    /\ UNCHANGED << inputVars, dataVars, groupVars, storageVars, grantedFamilies,
                    familyIndex, saveIndex, csvWriterList, importReportList, reportLog, thrown, log >>
    /\ UNCHANGED outsideVars

\* The first row of originalFamilyData with the NISTITULAR of familyItem.
OriginalFamilyItem(data, familyItem) ==
    data[FindIndex(data, LAMBDA item : item.NISTITULAR = familyItem.NISTITULAR)]

\* Lines 548-583, one row of the group: granted when its TITULAR is the
\* name under the found key, written with a reason otherwise.
ItemStep ==
    /\ pc = "item"
    /\ itemIndex <= Len(duplicatedItens)
    /\ LET familyItem  == duplicatedItens[itemIndex]
           sislameItem == sislameData[sislameIndex]
           last        == itemIndex = Len(duplicatedItens)
       IN  IF /\ CompareNames(sislameItem[foundSislameKey], familyItem.TITULAR)
              /\ ValidAge(sislameItem.DataNascimento)
           THEN /\ grantedFamilies' =
                       AddGranted(grantedFamilies, familyItem,
                                  OriginalFamilyItem(originalFamilyData, familyItem),
                                  originalSislameData[sislameIndex], City)
                /\ log' = Append(log, Accepted(familyItem, "duplicated"))
                /\ itemIndex' = itemIndex + 1
                /\ duplicatedDependent' =
                       IF last THEN RemoveGroup(duplicatedDependent) ELSE duplicatedDependent
                /\ pc' = IF last THEN AfterGroup(duplicatedDependent) ELSE "item"
                /\ UNCHANGED inflight
           ELSE LET record ==
                      IF CompareNames(sislameItem[foundSislameKey], familyItem.TITULAR)
                      THEN Rejection(familyItem, SislameOverageReason)
                      ELSE Rejection(familyItem, LinkedReason(sislameItem[foundSislameKey]))
                IN  /\ inflight' = Append(inflight, << record >>)
                    /\ log' = Append(log, Rejected("duplicated", record))
                    /\ pc' = "awaitItem"
                    /\ UNCHANGED << grantedFamilies, itemIndex, duplicatedDependent >>
    /\ UNCHANGED << inputVars, dataVars, duplicatedItens, sislameIndex, foundSislameKey,
                    storageVars, familyIndex, saveIndex, csvFile, csvWriterList,
                    importReportList, reportLog, thrown >>
    /\ UNCHANGED outsideVars

\* The write of a row of the group settles: the next row, or the next group.
ItemWriteDone ==
    /\ pc = "awaitItem"
    /\ csvFile' = csvFile \o Head(inflight)
    /\ inflight' = Tail(inflight)
    /\ itemIndex' = itemIndex + 1
    /\ LET last == itemIndex = Len(duplicatedItens)
       IN  /\ duplicatedDependent' =
                  IF last THEN RemoveGroup(duplicatedDependent) ELSE duplicatedDependent
           /\ pc' = IF last THEN AfterGroup(duplicatedDependent) ELSE "item"
    /\ UNCHANGED << inputVars, dataVars, duplicatedItens, sislameIndex, foundSislameKey,
                    storageVars, grantedFamilies, familyIndex, saveIndex, csvWriterList,
                    importReportList, reportLog, thrown, log >>
    /\ UNCHANGED outsideVars

SavingReportSettled(index, length) ==
    [status |-> "saving", percentage |-> [num |-> index, den |-> length],
     inProgress |-> FALSE]

SavingReport(index, length) ==
    [status |-> "saving", percentage |-> [num |-> index, den |-> length]]

\* Lines 595-605: the report says 'saving' and the next family is handed to
\* certifyFamilyAndDependents.
SaveStep ==
    /\ pc = "saving"
    /\ saveIndex <= Len(grantedFamilies)
    /\ importReportList' =
           UpdateImportReport(importReportList,
                              SavingReport(saveIndex, Len(grantedFamilies)), City)
    /\ reportLog' = Append(reportLog, Call(City, SavingReport(saveIndex, Len(grantedFamilies))))
    /\ certifyCalls' = Append(certifyCalls, grantedFamilies[saveIndex])
    /\ pc' = "awaitSave"
    /\ UNCHANGED << inputVars, dataVars, groupVars, duplicatedDependent, grantedFamilies,
                    familyIndex, saveIndex, csvFile, inflight, csvWriterList, dbFamilies,
                    thrown, log >>
    /\ UNCHANGED outsideVars

SaveDoneSkip ==
    /\ pc = "awaitSave"
    /\ dbFamilies' = CertifyFamilyAndDependents(dbFamilies, grantedFamilies[saveIndex])
    /\ saveIndex' = saveIndex + 2
    /\ pc' = "saving"
    /\ UNCHANGED << inputVars, dataVars, groupVars, duplicatedDependent, grantedFamilies,
                    familyIndex, csvFile, inflight, csvWriterList, importReportList, reportLog,
                    certifyCalls, thrown, log >>
    /\ UNCHANGED outsideVars

\* certifyFamilyAndDependents settles: the family is saved with its dependents.
SaveDone ==
    /\ pc = "awaitSave"
    /\ dbFamilies' = CertifyFamilyAndDependents(dbFamilies, grantedFamilies[saveIndex])
    /\ saveIndex' = saveIndex + 1
    /\ pc' = "saving"
    /\ UNCHANGED << inputVars, dataVars, groupVars, duplicatedDependent, grantedFamilies,
                    familyIndex, csvFile, inflight, csvWriterList, importReportList, reportLog,
                    certifyCalls, thrown, log >>
    /\ UNCHANGED outsideVars

\* Lines 616-621: certifyFamilyAndDependents rejects, before or after the
\* family itself is saved; the catch removes the writer, reports the
\* failure and throws the error again.
SaveFail ==
    /\ pc = "awaitSave"
    /\ \E familySaved \in BOOLEAN :
         dbFamilies' = IF familySaved
                       THEN CertifyFamilyByNis(dbFamilies, grantedFamilies[saveIndex])
                       ELSE dbFamilies
    /\ csvWriterList' = csvWriterList \ {City}
    /\ importReportList' =
           UpdateImportReport(importReportList, FailedReport(DbError.message), City)
    /\ reportLog' = Append(reportLog, Call(City, FailedReport(DbError.message)))
    /\ thrown' = DbError
    /\ pc' = "thrown"
    /\ UNCHANGED << inputVars, dataVars, groupVars, duplicatedDependent, grantedFamilies,
                    familyIndex, saveIndex, csvFile, inflight, certifyCalls, log >>
    /\ UNCHANGED outsideVars

\* Lines 608-615: every family is saved; the writer is removed and the
\* report says 'completed'.
Complete ==
    /\ pc = "saving"
    /\ saveIndex > Len(grantedFamilies)
    /\ csvWriterList' = csvWriterList \ {City}
    /\ importReportList' =
           UpdateImportReport(importReportList,
                              [status |-> "completed", inProgress |-> FALSE], City)
    /\ reportLog' = Append(reportLog, Call(City, [status |-> "completed", inProgress |-> FALSE]))
    /\ pc' = "done"
    /\ UNCHANGED << inputVars, dataVars, groupVars, storageVars, duplicatedDependent,
                    grantedFamilies, familyIndex, saveIndex, csvFile, inflight, thrown,
                    log >>
    /\ UNCHANGED outsideVars

Next ==
    \/ Start
    \/ ReadFail
    \/ ValidateFail
    \/ FilterData
    \/ OverageWriteDone
    \/ WriteFail
    \/ CompareStep
    \/ CompareWriteDone
    \/ GroupStep
    \/ GroupWriteDone
    \/ ItemStep
    \/ ItemWriteDone
    \/ SaveStep
    \/ SaveDone
    \/ SaveFail
    \/ Complete

Spec == Init /\ [][Next]_vars

----------------------------------------------------------------------------
(* What the claims are stated with.                                        *)

\* The benefit rows that survive the (NISTITULAR, NISDEPENDEN) deduplication.
DeduplicatedRows == UniqueFamily(familyFile)

\* The compare loop and the duplicate pass are over.
Resolved ==
    \/ pc \in {"saving", "awaitSave", "done"}
    \/ pc = "thrown" /\ thrown = DbError

\* The report a poller gets for the city.
CityReport == GetImportReport(importReportList, City)

\* Number of decisions taken on the row with the key of item.
DecisionsOn(item) ==
    Cardinality({ k \in 1..Len(log) : FamilyKey(log[k].row) = FamilyKey(item) })

\* Number of dependents over all the grants.
GrantedDependents ==
    LET F[i \in 0..Len(grantedFamilies)] ==
          IF i = 0 THEN 0 ELSE F[i-1] + Len(grantedFamilies[i].dependents)
    IN  F[Len(grantedFamilies)]

\* The rejection records decided so far, in the order of their decision.
DecidedRecords ==
    LET F[i \in 0..Len(log)] ==
          IF i = 0 THEN << >>
          ELSE IF log[i].outcome = "rejected"
               THEN Append(F[i-1], Rejection(log[i].row, log[i].reason))
               ELSE F[i-1]
    IN  F[Len(log)]

\* The records handed to the writer and not yet settled.
InflightRecords ==
    LET F[i \in 0..Len(inflight)] ==
          IF i = 0 THEN << >> ELSE F[i-1] \o inflight[i]
    IN  F[Len(inflight)]

IsPrefix(s, t) == Len(s) <= Len(t) /\ SubSeq(t, 1, Len(s)) = s

\* C1: once the compare loop and the duplicate pass are over, every benefit
\* row that survived the deduplication has exactly one decision, a grant or
\* a rejection record, so that the dependents granted plus the records
\* written are as many as the deduplicated rows.
C1_OneOutcomePerRow ==
    Resolved =>
        /\ \A i \in 1..Len(DeduplicatedRows) : DecisionsOn(DeduplicatedRows[i]) = 1
        /\ GrantedDependents + Len(csvFile) = Len(DeduplicatedRows)

\* C2: in the final grantedFamilies no NISDEPENDEN is in the dependents of
\* two different grants.
C2_DependentInOneGrant ==
    Resolved =>
        \A i, j \in 1..Len(grantedFamilies) :
            i # j =>
                \A a \in 1..Len(grantedFamilies[i].dependents),
                   b \in 1..Len(grantedFamilies[j].dependents) :
                    grantedFamilies[i].dependents[a].family.NISDEPENDEN #
                    grantedFamilies[j].dependents[b].family.NISDEPENDEN

\* The row shares its NISDEPENDEN with a row of another NISTITULAR.
SplitDependent(item) ==
    \E j \in 1..Len(originalFamilyData) :
        /\ originalFamilyData[j].NISDEPENDEN = item.NISDEPENDEN
        /\ originalFamilyData[j].NISTITULAR # item.NISTITULAR

\* C3: no row of a split dependent is in the list the main loop iterates or
\* gets a decision from the main loop; the duplicate pass alone handles it.
C3_SplitRowsOnlyInDuplicatePass ==
    /\ \A i \in 1..Len(familyData) : ~SplitDependent(familyData[i])
    /\ \A k \in 1..Len(log) :
           SplitDependent(log[k].row) => log[k].phase \in {"filter", "duplicated"}

\* C4: the records reach the reason file in the order the run decided the
\* rejections, one writeRecords call at a time: what is written and what is
\* in flight is what was decided (a prefix of it once a write has failed),
\* and at most one call is in flight.
C4_AuditOrder ==
    /\ Len(inflight) <= 1
    /\ IsPrefix(csvFile \o InflightRecords, DecidedRecords)
    /\ thrown # AuditError => csvFile \o InflightRecords = DecidedRecords

\* The run completed with records of different rows in the reason file, one
\* of them decided by the duplicate pass.
C4_Witness ==
    /\ pc = "done"
    /\ Len(csvFile) >= 2
    /\ \E k \in 1..Len(log) : log[k].phase = "duplicated" /\ log[k].outcome = "rejected"
    /\ \E a, b \in 1..Len(csvFile) : a < b /\ csvFile[a].row # csvFile[b].row

\* A required column is missing from the first row of one of the files.
ColumnMissing ==
    \/ Len(sislameFile) > 0 /\ SislameRequiredKeys \ sislameKeys # {}
    \/ Len(familyFile) > 0 /\ FamilyRequiredKeys \ familyKeys # {}

ReportedFailed ==
    /\ CityReport.status = "failed"
    /\ "message" \in DOMAIN CityReport
    /\ CityReport.inProgress = FALSE

\* C5: when a required column is missing from the first row of the
\* enrollment file or of the benefit file, the run has thrown with nothing
\* written to the reason file and no family saved, and the report of the
\* city is 'failed' with a message and not in progress.
C5_MissingColumnAborts ==
    ColumnMissing =>
        /\ pc = "thrown"
        /\ csvFile = << >> /\ inflight = << >>
        /\ dbFamilies = << >> /\ certifyCalls = << >>
        /\ ReportedFailed

\* C6: when a write to the reason file fails, the run has stopped and the
\* report of the city is 'failed' with the message of the error and not in
\* progress, as for a failure of the saving phase.
C6_AuditFailureReported ==
    thrown = AuditError =>
        /\ pc = "thrown"
        /\ ReportedFailed
        /\ CityReport.message = AuditError.message

\* The table after the first n grants are saved.
SavedUpTo(n) ==
    LET F[i \in 0..n] ==
          IF i = 0 THEN << >>
          ELSE CertifyFamilyAndDependents(F[i-1], grantedFamilies[i])
    IN  F[n]

\* C7: when saving the k-th grant fails, the grants before it stay saved,
\* the k-th is the last one handed to certifyFamilyAndDependents, the run
\* has thrown the error, and the report of the city is 'failed' with the
\* message of the error and not in progress (so never 'completed').
C7_PersistenceFailure ==
    thrown = DbError =>
        /\ pc = "thrown"
        /\ certifyCalls = SubSeq(grantedFamilies, 1, saveIndex)
        /\ dbFamilies \in { SavedUpTo(saveIndex - 1),
                            CertifyFamilyByNis(SavedUpTo(saveIndex - 1),
                                               grantedFamilies[saveIndex]) }
        /\ CityReport = [status |-> "failed", message |-> DbError.message,
                         inProgress |-> FALSE, cityId |-> City]

\* The second grant fails after the first was saved.
C7_Witness ==
    /\ thrown = DbError
    /\ saveIndex = 2
    /\ Len(dbFamilies) >= 1
    /\ Len(grantedFamilies) >= 2

\* The entries of sislameData with the name of the dependent and, under
\* one of the three roles, the name of the responsible.
FullMatches(familyItem) ==
    { i \in 1..Len(sislameData) :
        /\ CompareNames(sislameData[i].Aluno, familyItem.DEPENDENTE)
        /\ \E key \in {"Mae", "Pai", "NomeResponsavel"} :
               CompareNames(sislameData[i][key], familyItem.TITULAR) }

\* The entries of sislameData with the name of the dependent.
NameMatches(familyItem) ==
    { i \in 1..Len(sislameData) :
        CompareNames(sislameData[i].Aluno, familyItem.DEPENDENTE) }

Earliest(S) == CHOOSE i \in S : \A j \in S : i <= j

WrongGuardianText ==
    "Encontrado aluno com mesmo nome no Sislame, mas responsavel diferente. Atualizar Sislame ou e um homonimo"

\* The outcome section 4.5 gives a candidate of the main loop.
ExpectedOutcome(familyItem) ==
    LET full == FullMatches(familyItem)
    IN  IF full # {}
        THEN IF sislameData[Earliest(full)].DataNascimento < MinorityAge
             THEN "Accepted" ELSE "RejectedOverage"
        ELSE IF NameMatches(familyItem) # {}
             THEN "RejectedWrongGuardian" ELSE "RejectedNoMatch"

\* The outcome a decision of the run stands for.
OutcomeOf(decision) ==
    IF decision.outcome = "accepted" THEN "Accepted"
    ELSE IF decision.reason.text = SislameOverageReason.text THEN "RejectedOverage"
    ELSE IF decision.reason.text = WrongGuardianText THEN "RejectedWrongGuardian"
    ELSE IF decision.reason.text = NotInSislameReason.text THEN "RejectedNoMatch"
    ELSE "other"

\* C8: every decision of the main loop is the outcome section 4.5 gives:
\* accepted iff the first entry matching dependent and responsible is under
\* 18, overage iff that entry is 18 or more, wrong guardian iff only the
\* name of the dependent matches, no match otherwise.
C8_CompareOutcome ==
    \A k \in 1..Len(log) :
        log[k].phase = "compare" => OutcomeOf(log[k]) = ExpectedOutcome(log[k].row)

\* The main loop has accepted one candidate and rejected another for its guardian.
C8_Witness ==
    /\ \E k \in 1..Len(log) :
           log[k].phase = "compare" /\ OutcomeOf(log[k]) = "Accepted"
    /\ \E k \in 1..Len(log) :
           log[k].phase = "compare" /\ OutcomeOf(log[k]) = "RejectedWrongGuardian"

\* C9: first match: a candidate of the main loop whose earliest matching
\* entry is 18 or more is rejected as overage, whatever the later matching
\* entries are, and one whose earliest matching entry is under 18 is
\* accepted even when a later matching entry is not.
C9_FirstMatchDecides ==
    \A k \in 1..Len(log) :
        (log[k].phase = "compare" /\ Cardinality(FullMatches(log[k].row)) >= 2) =>
            LET first == sislameData[Earliest(FullMatches(log[k].row))]
            IN  /\ first.DataNascimento >= MinorityAge =>
                       /\ log[k].outcome = "rejected"
                       /\ log[k].reason = SislameOverageReason
                /\ first.DataNascimento < MinorityAge => log[k].outcome = "accepted"

\* A candidate rejected as overage though a later matching entry is a minor.
C9_Witness ==
    \E k \in 1..Len(log) :
        /\ log[k].phase = "compare"
        /\ log[k].reason = SislameOverageReason
        /\ \E i \in FullMatches(log[k].row) :
               /\ i > Earliest(FullMatches(log[k].row))
               /\ sislameData[i].DataNascimento < MinorityAge

\* The names of the guardians of the entry the name-only find returns.
GuardiansFound(familyItem) ==
    LET sislameItem == sislameData[Earliest(NameMatches(familyItem))]
    IN  { sislameItem.Mae, sislameItem.Pai, sislameItem.NomeResponsavel } \ {""}

\* C10, as claimed: the reason of a wrong-guardian record names a guardian
\* of the enrollment entry that was found.
C10_ReasonNamesGuardian ==
    \A k \in 1..Len(csvFile) :
        csvFile[k].reason.text = WrongGuardianText =>
            csvFile[k].reason.cited \cap GuardiansFound(csvFile[k].row) # {}

\* C10, amended: the reason of a wrong-guardian record is the fixed message
\* and names nobody; it is what the main loop decides for every candidate
\* that matches an entry by the name of the dependent alone.
C10_ReasonIsFixedMessage ==
    /\ \A k \in 1..Len(csvFile) :
           csvFile[k].reason.text = WrongGuardianText =>
               /\ csvFile[k].reason.cited = {}
               /\ ExpectedOutcome(csvFile[k].row) = "RejectedWrongGuardian"
    /\ \A k \in 1..Len(log) :
           (log[k].phase = "compare"
               /\ ExpectedOutcome(log[k].row) = "RejectedWrongGuardian") =>
               log[k].reason = Reason(WrongGuardianText, {})

\* A wrong-guardian record is in the reason file.
C10_Witness ==
    \E k \in 1..Len(csvFile) :
        /\ csvFile[k].reason.text = WrongGuardianText
        /\ GuardiansFound(csvFile[k].row) # {}

----------------------------------------------------------------------------
(* The eligibility filter.                                                 *)

\* The run has passed the required-data checks and split the rows by age.
PastFilter ==
    /\ pc \notin {"idle", "reading"}
    /\ pc = "thrown" => thrown \in {AuditError, DbError}

\* The rows of data with the key of item.
WithKey(data, item) ==
    { k \in 1..Len(data) : FamilyKey(data[k]) = FamilyKey(item) }

\* The benefit rows of a list of records.
RowsOf(records) == [k \in 1..Len(records) |-> records[k].row]

\* Every dependent of every grant satisfies P.
EveryDependent(P(_)) ==
    \A i \in 1..Len(grantedFamilies) :
        \A a \in 1..Len(grantedFamilies[i].dependents) : P(grantedFamilies[i].dependents[a])

\* The deduplicated rows the filter removes.
OverageRows ==
    { DeduplicatedRows[i] : i \in { k \in 1..Len(DeduplicatedRows) :
                                     DeduplicatedRows[k].DTNASCDEP >= MinorityAge } }

\* C11: a deduplicated benefit row whose dependent is 18 or more is decided
\* by the filter alone, with the overage reason: it is on no list the compare
\* loop or the duplicate pass works on, no dependent of a grant is built from
\* it, and the reason file gets one record for it, the overage one (none
\* when the write of the removed rows failed).
C11_OverageRejectedByFilter ==
    PastFilter =>
        \A item \in OverageRows :
            /\ DecisionsOn(item) = 1
            /\ \A k \in 1..Len(log) :
                   FamilyKey(log[k].row) = FamilyKey(item) =>
                       log[k] = Decision(item, "filter", "rejected", OverageReason)
            /\ WithKey(originalFamilyData, item) = {}
            /\ WithKey(familyData, item) = {}
            /\ WithKey(duplicatedDependent, item) = {}
            /\ WithKey(duplicatedItens, item) = {}
            /\ EveryDependent(LAMBDA dependent : FamilyKey(dependent.family) # FamilyKey(item))
            /\ LET written == WithKey(RowsOf(csvFile \o InflightRecords), item)
               IN  /\ Cardinality(written) <= 1
                   /\ thrown # AuditError => Cardinality(written) = 1
                   /\ \A k \in written :
                          (csvFile \o InflightRecords)[k] = Rejection(item, OverageReason)

\* An overage row has its record in the reason file and the run is finished
\* with a grant for another row.
C11_Witness ==
    /\ pc = "done"
    /\ grantedFamilies # << >>
    /\ \E item \in OverageRows :
           \E k \in 1..Len(csvFile) : csvFile[k] = Rejection(item, OverageReason)

----------------------------------------------------------------------------
(* The duplicate pass.                                                     *)

\* The rows the run works on, without their special characters.
Candidates == DeburrFamily(originalFamilyData)

\* The enrollment entries with the name of the dependent of item.
EntriesOf(item) ==
    { e \in 1..Len(sislameData) : CompareNames(sislameData[e].Aluno, item.DEPENDENTE) }

\* Two rows of one dependent and two guardians.
Claimants(a, b) ==
    /\ a.NISDEPENDEN = b.NISDEPENDEN
    /\ a.NISTITULAR # b.NISTITULAR

\* The row got the outcome in one of the phases.
Decided(item, phases, outcome) ==
    \E k \in 1..Len(log) :
        /\ FamilyKey(log[k].row) = FamilyKey(item)
        /\ log[k].phase \in phases
        /\ log[k].outcome = outcome

\* A grant of the guardian of item holds the dependent of item.
InGrant(item) ==
    \E i \in 1..Len(grantedFamilies) :
        /\ grantedFamilies[i].responsibleNis = item.NISTITULAR
        /\ \E a \in 1..Len(grantedFamilies[i].dependents) :
               grantedFamilies[i].dependents[a].family.NISDEPENDEN = item.NISDEPENDEN

\* mother is the mother and father the father on entries of their dependent,
\* all of them of a minor, and father is the mother on none.
MotherAndFather(mother, father) ==
    /\ Claimants(mother, father)
    /\ \E e \in EntriesOf(mother) : CompareNames(sislameData[e].Mae, mother.TITULAR)
    /\ \E e \in EntriesOf(father) : CompareNames(sislameData[e].Pai, father.TITULAR)
    /\ \A e \in EntriesOf(father) :
           /\ ~CompareNames(sislameData[e].Mae, father.TITULAR)
           /\ ValidAge(sislameData[e].DataNascimento)

\* C13: when two rows claim one dependent, one guardian being the mother and
\* the other the father on the enrollment list, then whatever the order of
\* the rows the mother's row is accepted, and the father's row is never
\* accepted, is rejected as linked to another person and is in no grant for
\* the dependent.
C13_MotherWinsOverFather ==
    Resolved =>
        \A m, f \in 1..Len(Candidates) :
            MotherAndFather(Candidates[m], Candidates[f]) =>
                /\ Decided(Candidates[m], {"compare", "duplicated"}, "accepted")
                /\ ~Decided(Candidates[f], {"compare", "duplicated"}, "accepted")
                /\ Decided(Candidates[f], {"duplicated"}, "rejected")
                /\ ~InGrant(Candidates[f])

\* The rows of Candidates that claim the dependent of item with other rows.
GroupOf(item) ==
    { k \in 1..Len(Candidates) :
        /\ Candidates[k].NISDEPENDEN = item.NISDEPENDEN
        /\ \E j \in 1..Len(Candidates) : Claimants(Candidates[k], Candidates[j]) }

\* The duplicate pass treated the row as the winner of its group.
Winner(item) ==
    \E k \in 1..Len(log) :
        /\ FamilyKey(log[k].row) = FamilyKey(item)
        /\ log[k].phase = "duplicated"
        /\ \/ log[k].outcome = "accepted"
           \/ log[k].reason = SislameOverageReason

\* The duplicate pass rejected the row as linked to the guardian of winner.
LoserTo(item, winner) ==
    \E k \in 1..Len(log) :
        /\ FamilyKey(log[k].row) = FamilyKey(item)
        /\ log[k].phase = "duplicated"
        /\ log[k].reason.text = LinkedReason("").text
        /\ \E name \in log[k].reason.cited : CompareNames(name, winner.TITULAR)

\* C14: in a group of rows claiming one dependent for which the enrollment
\* list has an entry with one of the claimants in some role, one claimant is
\* the winner, every other claimant is rejected as linked to the winner, and
\* no two claimants are accepted.
C14_OneWinnerPerGroup ==
    Resolved =>
        \A g \in 1..Len(Candidates) :
            LET group == GroupOf(Candidates[g])
            IN  (group # {} /\ FindDuplicatedKey(sislameData, Filter(Candidates,
                                   LAMBDA item : item.NISDEPENDEN = Candidates[g].NISDEPENDEN))[1] > 0) =>
                    /\ \E w \in group :
                           /\ Winner(Candidates[w])
                           /\ \A other \in group \ {w} :
                                  /\ ~Winner(Candidates[other])
                                  /\ LoserTo(Candidates[other], Candidates[w])
                    /\ \A a, b \in group :
                           a # b => ~( /\ Decided(Candidates[a], {"compare", "duplicated"}, "accepted")
                                       /\ Decided(Candidates[b], {"compare", "duplicated"}, "accepted") )

----------------------------------------------------------------------------
(* The saving phase.                                                       *)

\* The certifyFamilyAndDependents calls that have settled, with or without
\* an error.
SettledCalls ==
    IF pc = "awaitSave" THEN Len(certifyCalls) - 1 ELSE Len(certifyCalls)

\* C18: certifyFamilyAndDependents is called on the grants in the order of
\* grantedFamilies, once each: the calls made are the first grants of the
\* list, as many as the loop has reached; a call is made only when every
\* call before it has settled; and a run that completes has made one call
\* per grant.
C18_OneCallPerGrantInOrder ==
    /\ Len(certifyCalls) <= Len(grantedFamilies)
    /\ certifyCalls = SubSeq(grantedFamilies, 1, Len(certifyCalls))
    /\ pc \notin {"saving", "awaitSave", "done", "thrown"} => certifyCalls = << >>
    /\ pc \in {"saving", "done"} => Len(certifyCalls) = saveIndex - 1
    /\ pc = "awaitSave" \/ thrown = DbError => Len(certifyCalls) = saveIndex
    /\ Len(certifyCalls) - SettledCalls \in {0, 1}
    /\ pc = "done" => certifyCalls = grantedFamilies

\* A run completes with two grants, each saved by its own call.
C18_Witness ==
    /\ pc = "done"
    /\ Len(grantedFamilies) >= 2
    /\ Len(certifyCalls) = Len(grantedFamilies)
    /\ Len(dbFamilies) = Len(grantedFamilies)

----------------------------------------------------------------------------
(* The two uniqBy calls of lines 417-418 on their own, on lists that hold   *)
(* rows with the same fields and rows whose fields hold a hyphen.          *)

\* Enrollment rows: two of one student and enrollment number, and two whose
\* student and enrollment number differ and join into the same string.
DedupSislameRows ==
    { SislameRow("ANA", "2", "MARIA", "", "", 17),
      SislameRow("ANA", "2", "", "JOSE", "", 17),
      SislameRow("ANA-1", "2", "MARIA", "", "", 17),
      SislameRow("ANA", "1-2", "MARIA", "", "", 17) }

DedupSislameFiles == SeqsUpTo(DedupSislameRows, MaxSis)

InitDedup ==
    /\ pc = "read"
    /\ familyFile \in FamilyFiles
    /\ sislameFile \in DedupSislameFiles
    /\ familyKeys = {}
    /\ sislameKeys = {}
    /\ originalFamilyData = << >>
    /\ originalSislameData = << >>
    /\ familyData = << >>
    /\ sislameData = << >>
    /\ duplicatedDependent = << >>
    /\ grantedFamilies = << >>
    /\ familyIndex = 0
    /\ duplicatedItens = << >>
    /\ itemIndex = 0
    /\ sislameIndex = 0
    /\ foundSislameKey = "Mae"
    /\ saveIndex = 0
    /\ csvFile = << >>
    /\ inflight = << >>
    /\ csvWriterList = {}
    /\ importReportList = << >>
    /\ reportLog = << >>
    /\ dbFamilies = << >>
    /\ certifyCalls = << >>
    /\ thrown = NoError
    /\ log = << >>
    /\ InitOutside

\* Lines 417-418: each list becomes its uniqBy.
Dedup ==
    /\ pc = "read"
    /\ originalFamilyData' = UniqueFamily(familyFile)
    /\ originalSislameData' = UniqueSislame(sislameFile)
    /\ pc' = "deduplicated"
    /\ UNCHANGED << familyFile, sislameFile, familyKeys, sislameKeys, familyData,
                    sislameData, duplicatedDependent, grantedFamilies, familyIndex,
                    duplicatedItens, itemIndex, sislameIndex, foundSislameKey,
                    saveIndex, csvFile, inflight, csvWriterList, importReportList,
                    reportLog, dbFamilies, certifyCalls, thrown, log >>
    /\ UNCHANGED outsideVars

\* The same two calls on their own results.
DedupAgain ==
    /\ pc = "deduplicated"
    /\ originalFamilyData' = UniqueFamily(originalFamilyData)
    /\ originalSislameData' = UniqueSislame(originalSislameData)
    /\ pc' = "deduplicated twice"
    /\ UNCHANGED << familyFile, sislameFile, familyKeys, sislameKeys, familyData,
                    sislameData, duplicatedDependent, grantedFamilies, familyIndex,
                    duplicatedItens, itemIndex, sislameIndex, foundSislameKey,
                    saveIndex, csvFile, inflight, csvWriterList, importReportList,
                    reportLog, dbFamilies, certifyCalls, thrown, log >>
    /\ UNCHANGED outsideVars

NextDedup ==
    \/ Dedup
    \/ DedupAgain

SpecDedup == InitDedup /\ [][NextDedup]_vars

\* The rows of s that no earlier row equals on Same, in the order of s.
FirstOfEach(s, Same(_, _)) ==
    LET F[i \in 0..Len(s)] ==
          IF i = 0 THEN << >>
          ELSE IF \E j \in 1..(i-1) : Same(s[j], s[i])
               THEN F[i-1]
               ELSE Append(F[i-1], s[i])
    IN  F[Len(s)]

SameFamilyPair(a, b) ==
    a.NISTITULAR = b.NISTITULAR /\ a.NISDEPENDEN = b.NISDEPENDEN

SameSislamePair(a, b) ==
    a.Aluno = b.Aluno /\ a.Matricula = b.Matricula

\* C19: the deduplication of a list keeps, in the order of the list, the
\* first row of each (NISTITULAR, NISDEPENDEN) pair for the benefit rows and
\* of each (Aluno, Matricula) pair for the enrollment rows, and a second
\* deduplication changes nothing.
C19_KeepsFirstOfEachPair ==
    pc \in {"deduplicated", "deduplicated twice"} =>
        /\ originalFamilyData = FirstOfEach(familyFile, SameFamilyPair)
        /\ originalSislameData = FirstOfEach(sislameFile, SameSislamePair)

----------------------------------------------------------------------------
(* The report registry on its own: updateImportReport calls for several    *)
(* cities, in any order. A call runs to its end before another starts, so  *)
(* the runs of two cities interleave call by call.                         *)

\* A second city.
OtherCity == 2

Cities == {City, OtherCity}

\* The calls the registry takes before it is looked at.
MaxUpdates == 3

\* Reports as the run passes them: a status alone, with a percentage, with a
\* message, with inProgress, and one that carries the cityId of another city.
Reports ==
    { [status |-> "reading files"],
      ComparingReport(1, 2),
      FailedReport(DbError.message),
      [status |-> "completed", inProgress |-> FALSE],
      [status |-> "saving", cityId |-> OtherCity] }

\* updateImportReport(importReport, cityId).
Update ==
    /\ Len(reportLog) < MaxUpdates
    /\ \E cityId \in Cities, importReport \in Reports :
         /\ importReportList' = UpdateImportReport(importReportList, importReport, cityId)
         /\ reportLog' = Append(reportLog, Call(cityId, importReport))
    /\ UNCHANGED << pc, familyFile, sislameFile, familyKeys, sislameKeys,
                    originalFamilyData, originalSislameData, familyData, sislameData,
                    duplicatedDependent, grantedFamilies, familyIndex, duplicatedItens,
                    itemIndex, sislameIndex, foundSislameKey, saveIndex, csvFile,
                    inflight, csvWriterList, dbFamilies, certifyCalls, thrown, log >>
    /\ UNCHANGED outsideVars

NextReports == Update

SpecReports == Init /\ [][NextReports]_vars

\* The last call for the city, 0 when there is none.
LastCall(cityId) ==
    LET calls == { k \in 1..Len(reportLog) : reportLog[k].cityId = cityId }
    IN  IF calls = {} THEN 0 ELSE CHOOSE k \in calls : \A other \in calls : other <= k

\* What one call leaves for its city: the fields given, the city of the
\* call, and inProgress, true when not given.
ReportOf(call) ==
    [field \in DOMAIN call.importReport \cup {"cityId", "inProgress"} |->
        IF field = "cityId" THEN call.cityId
        ELSE IF field = "inProgress"
             THEN IF "inProgress" \in DOMAIN call.importReport
                  THEN call.importReport.inProgress ELSE TRUE
             ELSE call.importReport[field]]

\* C15: getImportReport gives, for a city without any updateImportReport,
\* the report idle and not in progress, and for any other city the report of
\* its most recent updateImportReport.
C15_GetImportReport ==
    \A cityId \in Cities :
        GetImportReport(importReportList, cityId) =
            IF LastCall(cityId) = 0
            THEN [status |-> "idle", cityId |-> cityId, inProgress |-> FALSE]
            ELSE ReportOf(reportLog[LastCall(cityId)])

\* One city was updated twice with different reports, the other never.
C15_Witness ==
    /\ LastCall(OtherCity) = 0
    /\ \E k \in 1..Len(reportLog) :
           /\ k < LastCall(City)
           /\ reportLog[k].cityId = City
           /\ reportLog[k].importReport # reportLog[LastCall(City)].importReport

\* C16: the list holds at most one report per city, and a stored report has
\* the fields of the last update of its city and no other: nothing of an
\* earlier update stays, and inProgress is true when the update gives none.
C16_ReplaceNotMerge ==
    /\ \A i, j \in 1..Len(importReportList) :
           importReportList[i].cityId = importReportList[j].cityId => i = j
    /\ \A i \in 1..Len(importReportList) :
           LET stored == importReportList[i]
               last   == reportLog[LastCall(stored.cityId)].importReport
           IN  /\ LastCall(stored.cityId) > 0
               /\ DOMAIN stored = DOMAIN last \cup {"cityId", "inProgress"}
               /\ \A field \in DOMAIN last \ {"cityId", "inProgress"} :
                      stored[field] = last[field]
               /\ "inProgress" \notin DOMAIN last => stored.inProgress = TRUE
               /\ "inProgress" \in DOMAIN last => stored.inProgress = last.inProgress

\* An update with a message was followed by one without, for the same city.
C16_Witness ==
    \E k \in 1..Len(reportLog) :
        /\ k < LastCall(City)
        /\ reportLog[k].cityId = City
        /\ "message" \in DOMAIN reportLog[k].importReport
        /\ "message" \notin DOMAIN reportLog[LastCall(City)].importReport
        /\ "inProgress" \notin DOMAIN reportLog[LastCall(City)].importReport

\* C17: an updateImportReport for one city leaves what getImportReport
\* gives for every other city as it was.
C17_OtherCitiesUnchanged ==
    [][ \A cityId \in Cities :
            (reportLog' # reportLog /\ reportLog'[Len(reportLog')].cityId # cityId) =>
                GetImportReport(importReportList', cityId) =
                    GetImportReport(importReportList, cityId) ]_vars

\* Both cities have a report, and the last update was for the city whose
\* report is not the last of the list any more.
C17_Witness ==
    /\ Len(importReportList) = 2
    /\ Len(reportLog) >= 3
    /\ reportLog[1].cityId = City
    /\ reportLog[2].cityId = OtherCity
    /\ reportLog[3].cityId = City
    /\ GetImportReport(importReportList, OtherCity) = ReportOf(reportLog[2])

----------------------------------------------------------------------------
(* The run on longer benefit files: three dependents, or two dependents    *)
(* each claimed by both guardians. A step of the duplicate pass is taken  *)
(* whenever one can be: the loop runs on without waiting, and after an     *)
(* await as soon as the writeRecords promise settles, one way or the other.*)

\* Three dependents, the first claimed by both guardians.
ThreeDependents ==
    { FamilyRow(1, 1, 17), FamilyRow(2, 1, 17), FamilyRow(2, 2, 17), FamilyRow(1, 3, 17) }

\* Two dependents, each claimed by both guardians.
TwoGroups ==
    { FamilyRow(1, 1, 17), FamilyRow(2, 1, 17), FamilyRow(1, 2, 17), FamilyRow(2, 2, 17) }

\* One enrollment entry per dependent.
WideSislameRows ==
    << SislameRow("JOAO", "1", "Maria", "JOSE", "", 17),
       SislameRow("LIA", "2", "MARIA", "", "", 17),
       SislameRow("BIA", "3", "", "JOSE", "", 17) >>

\* The sequences over S without a repeated element.
InjectiveSeqs(S) ==
    { s \in SeqsUpTo(S, Cardinality(S)) : \A i, j \in 1..Len(s) : s[i] = s[j] => i = j }

\* The entries of s at the indices in keep, in the order of s.
Pick(s, keep) ==
    LET F[i \in 0..Len(s)] ==
          IF i = 0 THEN << >>
          ELSE IF i \in keep THEN Append(F[i-1], s[i]) ELSE F[i-1]
    IN  F[Len(s)]

\* Benefit files: any rows of one of the two sets in any order, none repeated.
WideFamilyFiles == InjectiveSeqs(ThreeDependents) \cup InjectiveSeqs(TwoGroups)

\* Enrollment files: any of the entries, in the order above.
WideSislameFiles == { Pick(WideSislameRows, keep) : keep \in SUBSET (1..Len(WideSislameRows)) }

ValidateFailWide == ValidateFailFrom(WideFamilyFiles, WideSislameFiles)

FilterDataWide == FilterDataFrom(WideFamilyFiles, WideSislameFiles)

NextWide ==
    \/ Start
    \/ ReadFail
    \/ ValidateFailWide
    \/ FilterDataWide
    \/ OverageWriteDone
    \/ WriteFail
    \/ CompareStep
    \/ CompareWriteDone
    \/ GroupStep
    \/ GroupWriteDone
    \/ ItemStep
    \/ ItemWriteDone
    \/ SaveStep
    \/ SaveDone
    \/ SaveFail
    \/ Complete

\* The steps of the while loop of the duplicate pass and of its awaits.
DuplicatePass ==
    \/ GroupStep
    \/ GroupWriteDone
    \/ ItemStep
    \/ ItemWriteDone
    \/ WriteFail

SpecWide == Init /\ [][NextWide]_vars /\ WF_vars(DuplicatePass)

\* C12: no two grants have the same responsibleNis, and the grant of a
\* guardian holds one dependent per row of that guardian accepted so far.
C12_OneGrantPerGuardian ==
    /\ \A i, j \in 1..Len(grantedFamilies) :
           grantedFamilies[i].responsibleNis = grantedFamilies[j].responsibleNis => i = j
    /\ \A k \in 1..Len(log) :
           log[k].outcome = "accepted" =>
               \E i \in 1..Len(grantedFamilies) :
                   /\ grantedFamilies[i].responsibleNis = log[k].row.NISTITULAR
                   /\ Len(grantedFamilies[i].dependents) =
                          Cardinality({ n \in 1..Len(log) :
                                          /\ log[n].outcome = "accepted"
                                          /\ log[n].row.NISTITULAR = log[k].row.NISTITULAR })

\* The run is in the while loop of the duplicate pass.
InDuplicatePass == pc \in {"duplicated", "awaitGroup", "item", "awaitItem"}

\* The rows the duplicate pass starts with.
PendingAtStart == DuplicatedDependent(Candidates)

\* Number of decisions the duplicate pass has taken on the row.
PassDecisionsOn(item) ==
    Cardinality({ k \in 1..Len(log) :
                    /\ log[k].phase = "duplicated"
                    /\ FamilyKey(log[k].row) = FamilyKey(item) })

\* Once the lists are built: the pending rows are rows the pass started
\* with, no row is decided twice by the pass, a row that has left the
\* pending list is decided once, and the pass leaves no row pending.
EachGroupOnce ==
    familyIndex > 0 =>
        /\ \A k \in 1..Len(duplicatedDependent) :
               WithKey(PendingAtStart, duplicatedDependent[k]) # {}
        /\ \A k \in 1..Len(PendingAtStart) :
               /\ PassDecisionsOn(PendingAtStart[k]) <= 1
               /\ WithKey(duplicatedDependent, PendingAtStart[k]) = {} =>
                      PassDecisionsOn(PendingAtStart[k]) = 1
        /\ Resolved => duplicatedDependent = << >>

\* A step that changes the pending list takes from it the rows with the
\* NISDEPENDEN of its first row, all of them and no other, these rows being
\* the group the iteration worked on.
WholeGroupLeaves ==
    (familyIndex > 0 /\ duplicatedDependent' # duplicatedDependent) =>
        /\ duplicatedItens =
               Filter(duplicatedDependent,
                      LAMBDA item : item.NISDEPENDEN = duplicatedDependent[1].NISDEPENDEN)
        /\ duplicatedDependent' =
               Filter(duplicatedDependent,
                      LAMBDA item : item.NISDEPENDEN # duplicatedDependent[1].NISDEPENDEN)
        /\ Len(duplicatedDependent') < Len(duplicatedDependent)

\* C20: the loop of the duplicate pass always ends, it handles each group
\* of rows sharing a NISDEPENDEN once, and each iteration takes the whole
\* group of the first pending row from the pending list.
C20_DuplicatePassTerminates ==
    /\ []EachGroupOnce
    /\ [][WholeGroupLeaves]_vars
    /\ (InDuplicatePass ~> ~InDuplicatePass)

\* The pass is over and has handled two groups of two rows each.
C20_Witness ==
    /\ Resolved
    /\ Len(PendingAtStart) = 4
    /\ \E a, b \in 1..Len(PendingAtStart) :
           PendingAtStart[a].NISDEPENDEN # PendingAtStart[b].NISDEPENDEN
    /\ \A k \in 1..Len(PendingAtStart) : PassDecisionsOn(PendingAtStart[k]) = 1

----------------------------------------------------------------------------
(* The reports of one run.                                                 *)

\* The report has no percentage, or one from 0 to 1.
PercentageInRange(importReport) ==
    "percentage" \in DOMAIN importReport =>
        /\ importReport.percentage.den > 0
        /\ 0 <= importReport.percentage.num
        /\ importReport.percentage.num <= importReport.percentage.den

\* The phases that report a percentage.
CountingPhases == {"comparing data", "saving"}

\* The phase of the report of call k is over: a report of a later phase
\* follows it, or the run is past the main loop.
PhaseOver(k) ==
    \/ /\ k < Len(reportLog)
       /\ reportLog[k + 1].importReport.status \in {"saving", "completed"}
       /\ reportLog[k + 1].importReport.status # reportLog[k].importReport.status
    \/ /\ k = Len(reportLog)
       /\ reportLog[k].importReport.status = "comparing data"
       /\ familyIndex > Len(familyData)

\* C21: the report a poller gets, and every report written, has no
\* percentage or one from 0 to 1; from one 'comparing data' report to the
\* next, and from one 'saving' report to the next, the percentage grows;
\* and the last report of a phase that is over has percentage 1.
C21_PercentageGrowsToOne ==
    /\ PercentageInRange(CityReport)
    /\ \A k \in 1..Len(reportLog) :
           LET importReport == reportLog[k].importReport
           IN  /\ PercentageInRange(importReport)
               /\ importReport.status \in CountingPhases <=> "percentage" \in DOMAIN importReport
               /\ (k < Len(reportLog) /\ importReport.status \in CountingPhases
                     /\ reportLog[k + 1].importReport.status = importReport.status) =>
                      /\ reportLog[k + 1].importReport.percentage.den = importReport.percentage.den
                      /\ reportLog[k + 1].importReport.percentage.num > importReport.percentage.num
               /\ (importReport.status \in CountingPhases /\ PhaseOver(k)) =>
                      importReport.percentage.num = importReport.percentage.den

\* A run completes after two 'comparing data' and two 'saving' reports.
C21_Witness ==
    /\ pc = "done"
    /\ Len(familyData) >= 2
    /\ Len(grantedFamilies) >= 2
    /\ \E k \in 1..Len(reportLog) :
           /\ reportLog[k].importReport.status = "saving"
           /\ reportLog[k].importReport.percentage.num < reportLog[k].importReport.percentage.den

\* The place of a status in the order of a run.
StatusRank(status) ==
    CASE status = "reading files"  -> 1
      [] status = "filtering data" -> 2
      [] status = "comparing data" -> 3
      [] status = "saving"         -> 4
      [] status = "completed"      -> 5
      [] status = "failed"         -> 5
      [] OTHER                     -> 0

TerminalStatuses == {"completed", "failed"}

\* C22: the statuses the run writes never go back in the order reading
\* files, filtering data, comparing data, saving, completed or failed, and
\* nothing is written after completed or failed; a report is in progress
\* exactly when its status is none of these two; and completed is written
\* only once every grant has been saved by a call that succeeded.
C22_StatusOrder ==
    /\ \A k \in 1..Len(reportLog) :
           LET importReport == reportLog[k].importReport
           IN  /\ StatusRank(importReport.status) > 0
               /\ ReportOf(reportLog[k]).inProgress <=>
                      importReport.status \notin TerminalStatuses
               /\ k < Len(reportLog) =>
                      /\ importReport.status \notin TerminalStatuses
                      /\ StatusRank(importReport.status) <=
                             StatusRank(reportLog[k + 1].importReport.status)
               /\ importReport.status = "completed" =>
                      /\ pc = "done"
                      /\ certifyCalls = grantedFamilies
                      /\ saveIndex = Len(grantedFamilies) + 1
                      /\ dbFamilies = SavedUpTo(Len(grantedFamilies))
    /\ Len(reportLog) > 0 => reportLog[1].importReport.status = "reading files"
    /\ CityReport.inProgress <=> CityReport.status \notin {"idle", "completed", "failed"}

\* A run went through every status and completed with a family saved.
C22_Witness ==
    /\ pc = "done"
    /\ dbFamilies # << >>
    /\ { reportLog[k].importReport.status : k \in 1..Len(reportLog) } =
           {"reading files", "filtering data", "comparing data", "saving", "completed"}

----------------------------------------------------------------------------
(* The rows the grants are built from.                                     *)

\* The two benefit rows are of the same guardian and the same dependent.
SameFamilyRow(a, b) ==
    a.NISTITULAR = b.NISTITULAR /\ a.NISDEPENDEN = b.NISDEPENDEN

\* C26: every dependent of a grant is built from the raw row of a candidate
\* that was accepted, same NISTITULAR and same NISDEPENDEN, and is in the
\* grant of that NISTITULAR; and every accepted candidate has such a
\* dependent.
C26_BuiltFromOwnRow ==
    /\ \A i \in 1..Len(grantedFamilies) :
           \A a \in 1..Len(grantedFamilies[i].dependents) :
               LET family == grantedFamilies[i].dependents[a].family
               IN  /\ grantedFamilies[i].responsibleNis = family.NISTITULAR
                   /\ \E k \in 1..Len(log) :
                          /\ log[k].outcome = "accepted"
                          /\ SameFamilyRow(log[k].row, family)
    /\ \A k \in 1..Len(log) :
           log[k].outcome = "accepted" =>
               \E i \in 1..Len(grantedFamilies) :
                   /\ grantedFamilies[i].responsibleNis = log[k].row.NISTITULAR
                   /\ \E a \in 1..Len(grantedFamilies[i].dependents) :
                          SameFamilyRow(log[k].row, grantedFamilies[i].dependents[a].family)

----------------------------------------------------------------------------
(* The end of a run.                                                       *)

\* The run has returned or thrown.
Terminated == pc \in {"done", "thrown"}

\* C27: once the run has returned or thrown, whatever the stage it threw
\* at, csvWriterList has no writer for the city.
C27_WriterRemoved ==
    Terminated => City \notin csvWriterList

\* C28: when the run has thrown because the enrollment list or the benefit
\* list has no row, the report of the city is 'failed' and not in progress.
C28_EmptyListReported ==
    (pc = "thrown" /\ thrown \in {EmptySislameError, EmptyFamilyError}) =>
        /\ CityReport.status = "failed"
        /\ CityReport.inProgress = FALSE

----------------------------------------------------------------------------
(* certifyFamilyAndDependents called for the grants of several cities.     *)

MaxCertify == 3

\* The families a run of a city can hand to certifyFamilyAndDependents: a
\* benefit row with an enrollment row of its dependent.
CertifiableFamilies ==
    { ParseFamilyItem(pair[1], cityId)
          @@ [dependents |-> << ParseFamilyAndSislameItems(pair[1], pair[2]) >>] :
      pair \in { p \in FamilyRows \X SislameRows : CompareNames(p[2].Aluno, p[1].DEPENDENTE) },
      cityId \in Cities }

\* certifyFamilyAndDependents(family).
Certify ==
    /\ Len(certifyCalls) < MaxCertify
    /\ \E family \in CertifiableFamilies :
         /\ dbFamilies' = CertifyFamilyAndDependents(dbFamilies, family)
         /\ certifyCalls' = Append(certifyCalls, family)
    /\ UNCHANGED << pc, familyFile, sislameFile, familyKeys, sislameKeys,
                    originalFamilyData, originalSislameData, familyData, sislameData,
                    duplicatedDependent, grantedFamilies, familyIndex, duplicatedItens,
                    itemIndex, sislameIndex, foundSislameKey, saveIndex, csvFile,
                    inflight, csvWriterList, importReportList, reportLog, thrown, log >>
    /\ UNCHANGED outsideVars

NextCertify == Certify

SpecCertify == Init /\ [][NextCertify]_vars

\* The last call for the responsible of the city, 0 when there is none.
LastCertify(responsibleNis, cityId) ==
    LET calls == { k \in 1..Len(certifyCalls) :
                     /\ certifyCalls[k].responsibleNis = responsibleNis
                     /\ certifyCalls[k].cityId = cityId }
    IN  IF calls = {} THEN 0 ELSE CHOOSE k \in calls : \A other \in calls : other <= k

\* C29: a family saved for a city stays stored for that city with the data of
\* its own last save, whatever is saved afterwards for another city with the
\* same responsibleNis.
C29_CitiesKeepTheirFamilies ==
    \A k \in 1..Len(certifyCalls) :
        LET family == certifyCalls[k]
        IN  k = LastCertify(family.responsibleNis, family.cityId) =>
                \E i \in 1..Len(dbFamilies) : dbFamilies[i] = family

----------------------------------------------------------------------------
(* models/institutions: the institutions of the cities.                    *)

MaxInstitutionCalls == 3

\* The ids the calls ask for: the first institutions created, and later ones.
InstitutionIds == 1..2

InstitutionValues == { [name |-> "ESCOLA A"], [name |-> "ESCOLA B"] }

\* What a function hands back: null, undefined, an institution, or the
\* promise of an async function that has not been awaited.
Null           == [type |-> "null", item |-> {}]
Undefined      == [type |-> "undefined", item |-> {}]
Item(item)     == [type |-> "item", item |-> {item}]
Promise(value) == [type |-> "promise", item |-> value.item]

\* The condition of an if: null and undefined are falsy, every object is
\* truthy, a promise included.
Truthy(value) == value.type \notin {"null", "undefined"}

\* findByPk.
FindByPk(table, id) ==
    IF \E item \in table : item.id = id
    THEN Item(CHOOSE item \in table : item.id = id)
    ELSE Null

\* getById: the item when it is of the city, null otherwise.
GetById(table, id, cityId) ==
    LET item == FindByPk(table, id)
    IN  IF \E found \in item.item : found.cityId = cityId THEN item ELSE Null

\* `const cityItem = getById(id, cityId)`: the promise itself.
CityItem(table, id, cityId) == Promise(GetById(table, id, cityId))

\* db.institutions.update(values, { where: { id } }).
UpdateWhereId(table, id, values) ==
    { IF item.id = id THEN [item EXCEPT !.name = values.name] ELSE item : item \in table }

\* db.institutions.destroy({ where: { id } }).
DestroyWhereId(table, id) == { item \in table : item.id # id }

\* One call of the module, as the history keeps it.
InstitutionCall(op, id, cityId, after, returned) ==
    [op |-> op, id |-> id, cityId |-> cityId, before |-> dbInstitutions,
     after |-> after, returned |-> returned]

\* The id the table gives to the next row.
NextInstitutionId ==
    1 + Cardinality({ k \in 1..Len(institutionCalls) : institutionCalls[k].op = "create" })

\* create(values, cityId).
Create ==
    /\ Len(institutionCalls) < MaxInstitutionCalls
    /\ \E cityId \in Cities :
         LET item == [id |-> NextInstitutionId, cityId |-> cityId, name |-> "ESCOLA A"]
         IN  /\ dbInstitutions' = dbInstitutions \cup {item}
             /\ institutionCalls' =
                    Append(institutionCalls,
                           InstitutionCall("create", item.id, cityId,
                                           dbInstitutions \cup {item}, Item(item)))
    /\ UNCHANGED << cadVars, authLog, csvImportVars >>

\* updateById(id, values, cityId).
UpdateById ==
    /\ Len(institutionCalls) < MaxInstitutionCalls
    /\ \E id \in InstitutionIds, values \in InstitutionValues, cityId \in Cities :
         LET cityItem == CityItem(dbInstitutions, id, cityId)
             updated  == UpdateWhereId(dbInstitutions, id, values)
             item     == FindByPk(updated, id)
             returned == IF Truthy(cityItem)
                         THEN (IF item = Null THEN Undefined ELSE item)
                         ELSE Null
             after    == IF Truthy(cityItem) THEN updated ELSE dbInstitutions
         IN  /\ dbInstitutions' = after
             /\ institutionCalls' =
                    Append(institutionCalls,
                           InstitutionCall("updateById", id, cityId, after, returned))
    /\ UNCHANGED << cadVars, authLog, csvImportVars >>

\* deleteById(id, cityId).
DeleteById ==
    /\ Len(institutionCalls) < MaxInstitutionCalls
    /\ \E id \in InstitutionIds, cityId \in Cities :
         LET cityItem == CityItem(dbInstitutions, id, cityId)
             after    == IF Truthy(cityItem)
                         THEN DestroyWhereId(dbInstitutions, id)
                         ELSE dbInstitutions
         IN  /\ dbInstitutions' = after
             /\ institutionCalls' =
                    Append(institutionCalls,
                           InstitutionCall("deleteById", id, cityId, after, Undefined))
    /\ UNCHANGED << cadVars, authLog, csvImportVars >>

NextInstitutions ==
    \/ Create
    \/ UpdateById
    \/ DeleteById

SpecInstitutions == Init /\ [][NextInstitutions]_vars

\* The call leaves the table as it found it.
NothingChanged(call) == call.after = call.before

\* C23: updateById and deleteById for an id that is missing or belongs to
\* another city change nothing, and updateById then returns null.
C23_OnlyOwnCity ==
    \A k \in 1..Len(institutionCalls) :
        LET call == institutionCalls[k]
        IN  (/\ call.op \in {"updateById", "deleteById"}
             /\ GetById(call.before, call.id, call.cityId) = Null) =>
                /\ NothingChanged(call)
                /\ call.op = "updateById" => call.returned = Null

----------------------------------------------------------------------------
(* requirePublicAuth: the token of the public endpoints.                   *)

MaxRequests == 2

\* Hours after which a token is too old (line 37).
TooOldHours == 6

\* Time counts half hours.
HalfHoursPerHour == 2

\* The server's clock when the request arrives.
ServerNow == 40

\* process.env.AUTH_SECRET and process.env.AUTH_TOKEN.
AuthSecret == "secret"
AuthToken  == "token"

\* The `now` of a token: absent (0), or a time around the server's: 7, 6 1/2
\* and 6 hours before it, the same time, and 6 1/2 and 7 hours after it.
NowValues == { 0, ServerNow - 14, ServerNow - 13, ServerNow - 12, ServerNow,
               ServerNow + 13, ServerNow + 14 }

\* What the client encrypts: an object with now and token ("" when absent),
\* or the JSON text "null".
Payloads ==
    { [json |-> "object", now |-> now, token |-> token] :
        now \in NowValues, token \in {"", AuthToken, "wrong"} }
    \cup { [json |-> "null", now |-> 0, token |-> ""] }

\* CryptoJS.AES.encrypt(JSON.stringify(payload), secret).
Encrypt(payload, secret) == [secret |-> secret, payload |-> {payload}]

\* The authorization header: none, one that is no ciphertext, a payload
\* encrypted with another secret, or one encrypted with the server's.
Headers ==
    { [secret |-> "", payload |-> {}], [secret |-> "garbage", payload |-> {}],
      Encrypt([json |-> "object", now |-> ServerNow, token |-> AuthToken], "other") }
    \cup { Encrypt(payload, AuthSecret) : payload \in Payloads }

\* `!code`.
NoCode(code) == code.secret = "" /\ code.payload = {}

\* CryptoJS.AES.decrypt and JSON.parse: the payload under the right secret,
\* nothing that parses otherwise.
Decrypt(code, secret) == IF code.secret = secret THEN code.payload ELSE {}

\* moment(a).diff(moment(b), 'hours'): a - b in hours, truncated towards zero.
DiffHours(a, b) ==
    IF a >= b THEN (a - b) \div HalfHoursPerHour ELSE 0 - ((b - a) \div HalfHoursPerHour)

\* What the request gets: the status of the response sent, 0 when none, and
\* whether next() is called.
Response(status) == [status |-> status, next |-> FALSE]
CallNext         == [status |-> 0, next |-> TRUE]

\* requirePublicAuth(req, res, next) at the server time serverNow.
RequirePublicAuth(code, serverNow) ==
    IF NoCode(code) THEN Response(401)
    ELSE LET decrypted == Decrypt(code, AuthSecret)
         IN  IF decrypted = {} THEN Response(500)
             ELSE LET decryptedData == CHOOSE payload \in decrypted : TRUE
                  IN  IF decryptedData.json = "null" THEN Response(500)
                      ELSE IF decryptedData.now = 0 \/ decryptedData.token = ""
                           THEN Response(401)
                      ELSE IF DiffHours(decryptedData.now, serverNow) > TooOldHours
                           THEN Response(401)
                      ELSE IF decryptedData.token # AuthToken THEN Response(401)
                      ELSE CallNext

\* A request arrives and is handled.
HandleRequest ==
    /\ Len(authLog) < MaxRequests
    /\ \E code \in Headers :
         authLog' = Append(authLog, [code |-> code, serverNow |-> ServerNow,
                                     outcome |-> RequirePublicAuth(code, ServerNow)])
    /\ UNCHANGED << cadVars, institutionVars, csvImportVars >>

NextAuth == HandleRequest

SpecAuth == Init /\ [][NextAuth]_vars

\* The request carries a payload whose `now` is more than 6 hours before the
\* server's time.
TooOld(request) ==
    \E payload \in Decrypt(request.code, AuthSecret) :
        /\ payload.json = "object"
        /\ payload.now # 0
        /\ request.serverNow - payload.now > TooOldHours * HalfHoursPerHour

\* The request has a header that decrypts to an object with now and token.
WellFormed(request) ==
    \E payload \in Decrypt(request.code, AuthSecret) :
        /\ payload.json = "object"
        /\ payload.now # 0
        /\ payload.token # ""

\* The token of the request is AUTH_TOKEN.
TokenMatches(request) ==
    \E payload \in Decrypt(request.code, AuthSecret) : payload.token = AuthToken

\* C24: a request whose `now` is more than 6 hours old gets 401 and no
\* next(); next() is called only for a well-formed request that is not too
\* old and carries AUTH_TOKEN; every request gets next() or a response,
\* never both.
C24_OldTokensRejected ==
    \A k \in 1..Len(authLog) :
        LET request == authLog[k]
        IN  /\ TooOld(request) =>
                  request.outcome.status = 401 /\ ~request.outcome.next
            /\ request.outcome.next =>
                  WellFormed(request) /\ ~TooOld(request) /\ TokenMatches(request)
            /\ request.outcome.next <=> request.outcome.status = 0

----------------------------------------------------------------------------
(* importFamilyFromCSVFile: one certifyFamilyByCode call per line of a     *)
(* responsible, awaited in batches.                                        *)

MaxLines == 3

\* Calls queued before they are awaited together: 100 at line 221, scaled
\* down here with the length of the files.
BatchSize == 2

\* A line of the file: of a responsible with a valid fx_rfpc, of a person who
\* is not the responsible, or of a responsible with an invalid fx_rfpc.
LineKinds == {"family", "not RF", "invalid fx_rfpc"}

CsvInputs == SeqsUpTo(LineKinds, MaxLines)

\* reportResult.wrong++ and reportResult.report.push(...).
CountWrong(result, line, text) ==
    [result EXCEPT !.wrong = @ + 1, !.report = Append(@, [line |-> line, text |-> text])]

\* Promise.all(promises) has rejected: one of the calls has.
AllRejected(calls) == \E k \in 1..Len(calls) : calls[k] = "rejected"

\* Promise.all(promises) has fulfilled: every call has.
AllFulfilled(calls) == \A k \in 1..Len(calls) : calls[k] = "fulfilled"

\* Lines 178-184: the report is created and the file is opened.
StartCsv ==
    /\ csvPc = "idle"
    /\ csvInput' \in CsvInputs
    /\ lineNumber' = 0
    /\ promises' = << >>
    /\ reportResult' = NewReportResult
    /\ conversion' = "pending"
    /\ csvPc' = "reading"
    /\ UNCHANGED << cadVars, institutionVars, authLog >>

\* Lines 242-245: the file cannot be read; the promise rejects.
CsvReadError ==
    /\ csvPc = "reading"
    /\ conversion' = "rejected"
    /\ csvPc' = "ended"
    /\ UNCHANGED << cadVars, institutionVars, authLog, csvInput, lineNumber, promises,
                    reportResult >>

\* Lines 189-224: the handler of one line, up to its return or to the await
\* of line 222.
LineHandler ==
    /\ csvPc = "reading"
    /\ lineNumber < Len(csvInput)
    /\ lineNumber' = lineNumber + 1
    /\ LET json == csvInput[lineNumber + 1]
       IN  IF json = "family"
           THEN /\ promises' = Append(promises, "pending")
                /\ reportResult' = [reportResult EXCEPT !.updated = @ + 1]
                /\ csvPc' = IF Len(promises) + 1 >= BatchSize THEN "flushing" ELSE "reading"
           ELSE /\ reportResult' = CountWrong(reportResult, lineNumber, json)
                /\ UNCHANGED << promises, csvPc >>
    /\ UNCHANGED << cadVars, institutionVars, authLog, csvInput, conversion >>

\* A certifyFamilyByCode call settles, with the family saved or with an error.
CertifySettle ==
    /\ \E k \in 1..Len(promises), outcome \in {"fulfilled", "rejected"} :
         /\ promises[k] = "pending"
         /\ promises' = [promises EXCEPT ![k] = outcome]
    /\ UNCHANGED << cadVars, institutionVars, authLog, csvPc, csvInput, lineNumber,
                    reportResult, conversion >>

\* Lines 222-223: the batch is saved and the list is emptied.
FlushDone ==
    /\ csvPc = "flushing"
    /\ AllFulfilled(promises)
    /\ promises' = << >>
    /\ csvPc' = "reading"
    /\ UNCHANGED << cadVars, institutionVars, authLog, csvInput, lineNumber, reportResult,
                    conversion >>

\* Lines 222 and 233-237: the await throws and the catch counts the line as
\* wrong; the list stays as it is.
FlushFail ==
    /\ csvPc = "flushing"
    /\ AllRejected(promises)
    /\ reportResult' = CountWrong(reportResult, lineNumber - 1, "Erro inesperado")
    /\ csvPc' = "reading"
    /\ UNCHANGED << cadVars, institutionVars, authLog, csvInput, lineNumber, promises,
                    conversion >>

\* Lines 246-253: every line is handled; the calls left are awaited, or the
\* promise resolves at once when there is none.
Completed ==
    /\ csvPc = "reading"
    /\ lineNumber = Len(csvInput)
    /\ IF Len(promises) > 0
       THEN /\ csvPc' = "completing"
            /\ UNCHANGED << reportResult, conversion >>
       ELSE /\ reportResult' = [reportResult EXCEPT !.finished = TRUE]
            /\ conversion' = "resolved"
            /\ csvPc' = "ended"
    /\ UNCHANGED << cadVars, institutionVars, authLog, csvInput, lineNumber, promises >>

\* Lines 248-253: the last batch is saved; the promise resolves.
CompletedDone ==
    /\ csvPc = "completing"
    /\ AllFulfilled(promises)
    /\ reportResult' = [reportResult EXCEPT !.finished = TRUE]
    /\ conversion' = "resolved"
    /\ csvPc' = "ended"
    /\ UNCHANGED << cadVars, institutionVars, authLog, csvInput, lineNumber, promises >>

\* Line 248: the await throws inside the completion callback, which has no
\* catch; neither resolve nor reject is called.
CompletedFail ==
    /\ csvPc = "completing"
    /\ AllRejected(promises)
    /\ csvPc' = "ended"
    /\ UNCHANGED << cadVars, institutionVars, authLog, csvInput, lineNumber, promises,
                    reportResult, conversion >>

NextCsv ==
    \/ StartCsv
    \/ CsvReadError
    \/ LineHandler
    \/ CertifySettle
    \/ FlushDone
    \/ FlushFail
    \/ Completed
    \/ CompletedDone
    \/ CompletedFail

\* The event loop runs every callback that is ready, and every call to the
\* database settles.
SpecCsv == Init /\ [][NextCsv]_vars /\ WF_vars(NextCsv)

Settled == conversion \in {"resolved", "rejected"}

\* C25: once the stream has ended and its last callback has run, the promise
\* is settled; when it is resolved, finished is true, every queued call is
\* fulfilled, updated + wrong is the number of lines handled and the report
\* has one entry per wrong line.
C25_ConversionSettles ==
    /\ csvPc = "ended" => Settled
    /\ conversion = "resolved" =>
          /\ reportResult.finished
          /\ AllFulfilled(promises)
          /\ reportResult.updated + reportResult.wrong = lineNumber
          /\ lineNumber = Len(csvInput)
          /\ Len(reportResult.report) = reportResult.wrong

====
